---------------------------- MODULE Spec2Model ----------------------------
(***************************************************************************)
(* WaveSwap staking programs.                                              *)
(*                                                                         *)
(*   waveswap_stake  (packages/programs/programs/waveswap_stake/src/lib.rs)*)
(*       the accumulator variant: one global pool, reward_per_token_stored *)
(*       and a per-user checkpoint.                                        *)
(*   wave_stake      (packages/programs/wave_stake/src/lib.rs)             *)
(*       the lock variant: a pool with a lock bonus, rewards recomputed    *)
(*       from the current share at claim time.                             *)
(*                                                                         *)
(* Every instruction is one atomic transaction: it commits all its writes  *)
(* or, on any error, none of them (the Solana runtime discards the account *)
(* writes of a failed transaction).  Each handler is therefore a pure      *)
(* function from the accounts and its inputs to an outcome                 *)
(* [res, S, paid]: S is the new account state when res = "Ok" and the old  *)
(* one otherwise.                                                          *)
(*                                                                         *)
(* TLC evaluates 32-bit integers, so the machine words are modelled at a   *)
(* reduced width: u64 has U64_BITS bits and u128 has U128_BITS bits.  The  *)
(* program's own constants (the 1_000_000 precision, the 10000 basis       *)
(* points) keep their values.                                              *)
(***************************************************************************)
EXTENDS Integers, FiniteSets, Sequences, TLC

\* ------------------------------------------------------------ bounds
U64_BITS == 28
U128_BITS == 29
MaxTime == 2
MaxAmount == 2
MaxTotalStaked == 2
RewardTotal == 5
MaxDuration == 2
MaxFundings == 2
ScenarioTicks == 6
LongTime == 4
MaxRate == 2
LockDuration == 2
MaxLockStaked == 2
LockBonus == 5000

\* ------------------------------------------------------------ machine words
U64_MAX == 2^U64_BITS - 1
U128_MAX == 2^U128_BITS - 1
I64_MAX == 2^(U64_BITS - 1) - 1
I64_MIN == 0 - 2^(U64_BITS - 1)

Max(a, b) == IF a >= b THEN a ELSE b

\* Result<T>: err = "Ok" carries the value v.
Ok(v) == [err |-> "Ok", v |-> v]
Err(e) == [err |-> e, v |-> 0]

\* checked_add / checked_sub / checked_mul / checked_div of an unsigned word
\* whose largest value is max: None (mapped to MathOverflow by ok_or) when the
\* exact result does not fit.
checked_add(a, b, max) == IF a > max - b THEN Err("MathOverflow") ELSE Ok(a + b)
checked_sub(a, b) == IF b > a THEN Err("MathOverflow") ELSE Ok(a - b)
checked_mul(a, b, max) ==
    IF b # 0 /\ a > max \div b THEN Err("MathOverflow") ELSE Ok(a * b)
checked_div(a, b) == IF b = 0 THEN Err("MathOverflow") ELSE Ok(a \div b)

\* i64::checked_add / checked_sub.
i64_checked_add(a, b) ==
    IF a + b > I64_MAX \/ a + b < I64_MIN THEN Err("MathOverflow") ELSE Ok(a + b)
i64_checked_sub(a, b) ==
    IF a - b > I64_MAX \/ a - b < I64_MIN THEN Err("MathOverflow") ELSE Ok(a - b)

\* `x as u64` of a u128: the low 64 bits.
as_u64(x) == x % (U64_MAX + 1)
\* `x as i64` of a u64: two's complement reinterpretation.
as_i64(x) == IF x > I64_MAX THEN x - (U64_MAX + 1) ELSE x

\* ------------------------------------------------------------ waveswap_stake
PRECISION == 1000000

Users == {"alice", "bob"}
Admin == "admin"

\* Mutant of calculate_reward_per_token: the interval is not cut off at
\* period_finish.
calculate_reward_per_token_unclipped(stored, last_update, start_time, period_finish, reward_rate, total_staked, current_time) ==
    IF total_staked = 0 \/ current_time < start_time THEN Ok(stored)
    ELSE LET effective_start == Max(last_update, start_time)
             last_applicable_time ==
                 current_time
         IN  IF last_applicable_time <= effective_start THEN Ok(stored)
             ELSE LET td == i64_checked_sub(last_applicable_time, effective_start)
                      m1 == checked_mul(reward_rate, td.v, U128_MAX)
                      m2 == checked_mul(m1.v, PRECISION, U128_MAX)
                      d  == checked_div(m2.v, total_staked)
                  IN  IF td.err # "Ok" THEN Err("MathOverflow")
                      ELSE IF m1.err # "Ok" THEN Err("MathOverflow")
                      ELSE IF m2.err # "Ok" THEN Err("MathOverflow")
                      ELSE IF d.err # "Ok" THEN Err("MathOverflow")
                      ELSE checked_add(stored, d.v, U128_MAX)

\* Mutant of calculate_reward_per_token: every settlement counts the window
\* from start_time, whatever was settled before.
calculate_reward_per_token_from_start(stored, last_update, start_time, period_finish, reward_rate, total_staked, current_time) ==
    IF total_staked = 0 \/ current_time < start_time THEN Ok(stored)
    ELSE LET effective_start == start_time
             last_applicable_time ==
                 IF current_time < period_finish THEN current_time
                 ELSE period_finish
         IN  IF last_applicable_time <= effective_start THEN Ok(stored)
             ELSE LET td == i64_checked_sub(last_applicable_time, effective_start)
                      m1 == checked_mul(reward_rate, td.v, U128_MAX)
                      m2 == checked_mul(m1.v, PRECISION, U128_MAX)
                      d  == checked_div(m2.v, total_staked)
                  IN  IF td.err # "Ok" THEN Err("MathOverflow")
                      ELSE IF m1.err # "Ok" THEN Err("MathOverflow")
                      ELSE IF m2.err # "Ok" THEN Err("MathOverflow")
                      ELSE IF d.err # "Ok" THEN Err("MathOverflow")
                      ELSE checked_add(stored, d.v, U128_MAX)

\* Mutant of calculate_reward_per_token: an empty pool restarts the accumulator.
calculate_reward_per_token_reset(stored, last_update, start_time, period_finish, reward_rate, total_staked, current_time) ==
    IF total_staked = 0 THEN Ok(0)
    ELSE IF current_time < start_time THEN Ok(stored)
    ELSE LET effective_start == Max(last_update, start_time)
             last_applicable_time ==
                 IF current_time < period_finish THEN current_time
                 ELSE period_finish
         IN  IF last_applicable_time <= effective_start THEN Ok(stored)
             ELSE checked_add(stored,
                      (reward_rate * (last_applicable_time - effective_start)
                           * PRECISION) \div total_staked,
                      U128_MAX)

calculate_reward_per_token(stored, last_update, start_time, period_finish, reward_rate, total_staked, current_time) ==
    IF total_staked = 0 \/ current_time < start_time THEN Ok(stored)
    ELSE LET effective_start == Max(last_update, start_time)
             last_applicable_time ==
                 IF current_time < period_finish THEN current_time
                 ELSE period_finish
         IN  IF last_applicable_time <= effective_start THEN Ok(stored)
             ELSE LET td == i64_checked_sub(last_applicable_time, effective_start)
                      m1 == checked_mul(reward_rate, td.v, U128_MAX)
                      m2 == checked_mul(m1.v, PRECISION, U128_MAX)
                      d  == checked_div(m2.v, total_staked)
                  IN  IF td.err # "Ok" THEN Err("MathOverflow")
                      ELSE IF m1.err # "Ok" THEN Err("MathOverflow")
                      ELSE IF m2.err # "Ok" THEN Err("MathOverflow")
                      ELSE IF d.err # "Ok" THEN Err("MathOverflow")
                      ELSE checked_add(stored, d.v, U128_MAX)

\* Mutant of calculate_earned: the checkpoint is not subtracted.
calculate_earned_no_checkpoint(staked_amount, reward_per_token, reward_per_token_paid, rewards_earned) ==
    checked_add(rewards_earned,
                as_u64((staked_amount * reward_per_token) \div PRECISION), U64_MAX)

calculate_earned(staked_amount, reward_per_token, reward_per_token_paid, rewards_earned) ==
    LET reward_diff == checked_sub(reward_per_token, reward_per_token_paid)
        m == checked_mul(staked_amount, reward_diff.v, U128_MAX)
        d == checked_div(m.v, PRECISION)
        new_reward == as_u64(d.v)
    IN  IF reward_diff.err # "Ok" THEN Err("MathOverflow")
        ELSE IF m.err # "Ok" THEN Err("MathOverflow")
        ELSE IF d.err # "Ok" THEN Err("MathOverflow")
        ELSE checked_add(rewards_earned, new_reward, U64_MAX)


\* The accounts of the program: GlobalState, the UserState of every user, the
\* token balances of the two vaults, and the reward tokens each user's own
\* token account has received from the reward vault.
NewUserState ==
    [init |-> FALSE, staked_amount |-> 0, rewards_earned |-> 0,
     reward_per_token_paid |-> 0]

\* initialize_config at clock time t.
initialize_config(t) ==
    [gs |-> [admin |-> Admin, vaults_init |-> FALSE, reward_duration |-> 0,
             reward_rate |-> 0, start_time |-> 0, period_finish |-> 0,
             last_update_time |-> t, reward_per_token_stored |-> 0,
             total_staked |-> 0],
     us |-> [u \in Users |-> NewUserState],
     stake_vault |-> 0,
     reward_vault |-> 0,
     received |-> [u \in Users |-> 0]]

Outcome(res, S, paid) == [res |-> res, S |-> S, paid |-> paid]

\* token::transfer into a vault holding bal: the token program rejects it when
\* the source cannot pay (ok = FALSE) or the vault's u64 balance would overflow.
transfer_in(bal, amount, ok) ==
    IF ~ok \/ bal > U64_MAX - amount THEN Err("TransferFailed") ELSE Ok(bal + amount)
\* token::transfer out of a vault holding bal.
transfer_out(bal, amount, ok) ==
    IF ~ok \/ amount > bal THEN Err("TransferFailed") ELSE Ok(bal - amount)

\* The settlement every handler starts with: reward_per_token_stored brought
\* to current_time.
settle_pool(gs, current_time) ==
    calculate_reward_per_token(gs.reward_per_token_stored, gs.last_update_time,
                               gs.start_time, gs.period_finish, gs.reward_rate,
                               gs.total_staked, current_time)

\* Mutant of set_rewards: start_time is not compared with the clock.
set_rewards_any_start_time(S, signer, total_reward, duration, start_time, current_time, xfer_ok) ==
    LET gs == S.gs
        rpt == settle_pool(gs, current_time)
        rate == checked_div(total_reward, duration)
        finish == i64_checked_add(start_time, as_i64(duration))
        xfer == transfer_in(S.reward_vault, total_reward, xfer_ok)
    IN  IF signer # gs.admin THEN Outcome("Unauthorized", S, 0)
        ELSE IF ~(total_reward > 0) THEN Outcome("InvalidAmount", S, 0)
        ELSE IF ~(duration > 0) THEN Outcome("InvalidAmount", S, 0)
        ELSE IF rpt.err # "Ok" THEN Outcome("MathOverflow", S, 0)
        ELSE IF rate.err # "Ok" THEN Outcome("MathOverflow", S, 0)
        ELSE IF finish.err # "Ok" THEN Outcome("MathOverflow", S, 0)
        ELSE IF xfer.err # "Ok" THEN Outcome("TransferFailed", S, 0)
        ELSE Outcome("Ok",
                 [S EXCEPT !.gs = [gs EXCEPT !.vaults_init = TRUE,
                                             !.reward_per_token_stored = rpt.v,
                                             !.last_update_time = current_time,
                                             !.reward_rate = rate.v,
                                             !.start_time = start_time,
                                             !.period_finish = finish.v,
                                             !.reward_duration = duration],
                           !.reward_vault = xfer.v],
                 0)

\* Mutant of set_rewards: reward_rate is the whole total_reward per second.
set_rewards_rate_undivided(S, signer, total_reward, duration, start_time, current_time, xfer_ok) ==
    LET gs == S.gs
        rpt == settle_pool(gs, current_time)
        rate == Ok(total_reward)
        finish == i64_checked_add(start_time, as_i64(duration))
        xfer == transfer_in(S.reward_vault, total_reward, xfer_ok)
    IN  IF signer # gs.admin THEN Outcome("Unauthorized", S, 0)
        ELSE IF ~(total_reward > 0) THEN Outcome("InvalidAmount", S, 0)
        ELSE IF ~(duration > 0) THEN Outcome("InvalidAmount", S, 0)
        ELSE IF ~(start_time >= current_time) THEN Outcome("InvalidStartTime", S, 0)
        ELSE IF rpt.err # "Ok" THEN Outcome("MathOverflow", S, 0)
        ELSE IF rate.err # "Ok" THEN Outcome("MathOverflow", S, 0)
        ELSE IF finish.err # "Ok" THEN Outcome("MathOverflow", S, 0)
        ELSE IF xfer.err # "Ok" THEN Outcome("TransferFailed", S, 0)
        ELSE Outcome("Ok",
                 [S EXCEPT !.gs = [gs EXCEPT !.vaults_init = TRUE,
                                             !.reward_per_token_stored = rpt.v,
                                             !.last_update_time = current_time,
                                             !.reward_rate = rate.v,
                                             !.start_time = start_time,
                                             !.period_finish = finish.v,
                                             !.reward_duration = duration],
                           !.reward_vault = xfer.v],
                 0)

\* Mutant of set_rewards: the accumulator is not brought to current_time
\* before the rate and the window are replaced.
set_rewards_without_settlement(S, signer, total_reward, duration, start_time, current_time, xfer_ok) ==
    LET gs == S.gs
        rpt == Ok(gs.reward_per_token_stored)
        rate == checked_div(total_reward, duration)
        finish == i64_checked_add(start_time, as_i64(duration))
        xfer == transfer_in(S.reward_vault, total_reward, xfer_ok)
    IN  IF signer # gs.admin THEN Outcome("Unauthorized", S, 0)
        ELSE IF ~(total_reward > 0) THEN Outcome("InvalidAmount", S, 0)
        ELSE IF ~(duration > 0) THEN Outcome("InvalidAmount", S, 0)
        ELSE IF ~(start_time >= current_time) THEN Outcome("InvalidStartTime", S, 0)
        ELSE IF rpt.err # "Ok" THEN Outcome("MathOverflow", S, 0)
        ELSE IF rate.err # "Ok" THEN Outcome("MathOverflow", S, 0)
        ELSE IF finish.err # "Ok" THEN Outcome("MathOverflow", S, 0)
        ELSE IF xfer.err # "Ok" THEN Outcome("TransferFailed", S, 0)
        ELSE Outcome("Ok",
                 [S EXCEPT !.gs = [gs EXCEPT !.vaults_init = TRUE,
                                             !.reward_per_token_stored = rpt.v,
                                             !.last_update_time = current_time,
                                             !.reward_rate = rate.v,
                                             !.start_time = start_time,
                                             !.period_finish = finish.v,
                                             !.reward_duration = duration],
                           !.reward_vault = xfer.v],
                 0)

set_rewards(S, signer, total_reward, duration, start_time, current_time, xfer_ok) ==
    LET gs == S.gs
        rpt == settle_pool(gs, current_time)
        rate == checked_div(total_reward, duration)
        finish == i64_checked_add(start_time, as_i64(duration))
        xfer == transfer_in(S.reward_vault, total_reward, xfer_ok)
    IN  IF signer # gs.admin THEN Outcome("Unauthorized", S, 0)
        ELSE IF ~(total_reward > 0) THEN Outcome("InvalidAmount", S, 0)
        ELSE IF ~(duration > 0) THEN Outcome("InvalidAmount", S, 0)
        ELSE IF ~(start_time >= current_time) THEN Outcome("InvalidStartTime", S, 0)
        ELSE IF rpt.err # "Ok" THEN Outcome("MathOverflow", S, 0)
        ELSE IF rate.err # "Ok" THEN Outcome("MathOverflow", S, 0)
        ELSE IF finish.err # "Ok" THEN Outcome("MathOverflow", S, 0)
        ELSE IF xfer.err # "Ok" THEN Outcome("TransferFailed", S, 0)
        ELSE Outcome("Ok",
                 [S EXCEPT !.gs = [gs EXCEPT !.vaults_init = TRUE,
                                             !.reward_per_token_stored = rpt.v,
                                             !.last_update_time = current_time,
                                             !.reward_rate = rate.v,
                                             !.start_time = start_time,
                                             !.period_finish = finish.v,
                                             !.reward_duration = duration],
                           !.reward_vault = xfer.v],
                 0)

\* Mutant of stake: the position and the pool total are credited, but the
\* tokens do not reach the stake vault.
stake_crediting_without_deposit(S, user, amount, current_time, xfer_ok) ==
    LET gs == S.gs
        rpt == settle_pool(gs, current_time)
        user_state == IF S.us[user].init THEN S.us[user]
                      ELSE [NewUserState EXCEPT !.init = TRUE]
        earned == calculate_earned(user_state.staked_amount, rpt.v,
                                   user_state.reward_per_token_paid,
                                   user_state.rewards_earned)
        staked == checked_add(user_state.staked_amount, amount, U64_MAX)
        total == checked_add(gs.total_staked, amount, U64_MAX)
        xfer == transfer_in(S.stake_vault, amount, xfer_ok)
    IN  IF ~gs.vaults_init THEN Outcome("AccountNotInitialized", S, 0)
        ELSE IF ~(amount > 0) THEN Outcome("InvalidAmount", S, 0)
        ELSE IF rpt.err # "Ok" THEN Outcome("MathOverflow", S, 0)
        ELSE IF earned.err # "Ok" THEN Outcome("MathOverflow", S, 0)
        ELSE IF staked.err # "Ok" THEN Outcome("MathOverflow", S, 0)
        ELSE IF total.err # "Ok" THEN Outcome("MathOverflow", S, 0)
        ELSE IF xfer.err # "Ok" THEN Outcome("TransferFailed", S, 0)
        ELSE Outcome("Ok",
                 [S EXCEPT !.gs = [gs EXCEPT !.reward_per_token_stored = rpt.v,
                                             !.last_update_time = current_time,
                                             !.total_staked = total.v],
                           !.us[user] = [user_state EXCEPT
                                             !.rewards_earned = earned.v,
                                             !.reward_per_token_paid = rpt.v,
                                             !.staked_amount = staked.v],
                           !.stake_vault = S.stake_vault],
                 0)

\* Mutant of stake: the settlement of a pool without stake is skipped whole,
\* last_update_time included.
stake_skipping_empty_pool(S, user, amount, current_time, xfer_ok) ==
    LET gs == S.gs
        rpt == settle_pool(gs, current_time)
        user_state == IF S.us[user].init THEN S.us[user]
                      ELSE [NewUserState EXCEPT !.init = TRUE]
        earned == calculate_earned(user_state.staked_amount, rpt.v,
                                   user_state.reward_per_token_paid,
                                   user_state.rewards_earned)
        staked == checked_add(user_state.staked_amount, amount, U64_MAX)
        total == checked_add(gs.total_staked, amount, U64_MAX)
        xfer == transfer_in(S.stake_vault, amount, xfer_ok)
    IN  IF ~gs.vaults_init THEN Outcome("AccountNotInitialized", S, 0)
        ELSE IF ~(amount > 0) THEN Outcome("InvalidAmount", S, 0)
        ELSE IF rpt.err # "Ok" THEN Outcome("MathOverflow", S, 0)
        ELSE IF earned.err # "Ok" THEN Outcome("MathOverflow", S, 0)
        ELSE IF staked.err # "Ok" THEN Outcome("MathOverflow", S, 0)
        ELSE IF total.err # "Ok" THEN Outcome("MathOverflow", S, 0)
        ELSE IF xfer.err # "Ok" THEN Outcome("TransferFailed", S, 0)
        ELSE Outcome("Ok",
                 [S EXCEPT !.gs = [gs EXCEPT !.reward_per_token_stored = rpt.v,
                                             !.last_update_time = IF gs.total_staked = 0 THEN @ ELSE current_time,
                                             !.total_staked = total.v],
                           !.us[user] = [user_state EXCEPT
                                             !.rewards_earned = earned.v,
                                             !.reward_per_token_paid = rpt.v,
                                             !.staked_amount = staked.v],
                           !.stake_vault = xfer.v],
                 0)

\* Mutant of stake: last_update_time is not advanced.
stake_keeping_last_update_time(S, user, amount, current_time, xfer_ok) ==
    LET gs == S.gs
        rpt == settle_pool(gs, current_time)
        user_state == IF S.us[user].init THEN S.us[user]
                      ELSE [NewUserState EXCEPT !.init = TRUE]
        earned == calculate_earned(user_state.staked_amount, rpt.v,
                                   user_state.reward_per_token_paid,
                                   user_state.rewards_earned)
        staked == checked_add(user_state.staked_amount, amount, U64_MAX)
        total == checked_add(gs.total_staked, amount, U64_MAX)
        xfer == transfer_in(S.stake_vault, amount, xfer_ok)
    IN  IF ~gs.vaults_init THEN Outcome("AccountNotInitialized", S, 0)
        ELSE IF ~(amount > 0) THEN Outcome("InvalidAmount", S, 0)
        ELSE IF rpt.err # "Ok" THEN Outcome("MathOverflow", S, 0)
        ELSE IF earned.err # "Ok" THEN Outcome("MathOverflow", S, 0)
        ELSE IF staked.err # "Ok" THEN Outcome("MathOverflow", S, 0)
        ELSE IF total.err # "Ok" THEN Outcome("MathOverflow", S, 0)
        ELSE IF xfer.err # "Ok" THEN Outcome("TransferFailed", S, 0)
        ELSE Outcome("Ok",
                 [S EXCEPT !.gs = [gs EXCEPT !.reward_per_token_stored = rpt.v,
                                             !.total_staked = total.v],
                           !.us[user] = [user_state EXCEPT
                                             !.rewards_earned = earned.v,
                                             !.reward_per_token_paid = rpt.v,
                                             !.staked_amount = staked.v],
                           !.stake_vault = xfer.v],
                 0)

stake(S, user, amount, current_time, xfer_ok) ==
    LET gs == S.gs
        rpt == settle_pool(gs, current_time)
        user_state == IF S.us[user].init THEN S.us[user]
                      ELSE [NewUserState EXCEPT !.init = TRUE]
        earned == calculate_earned(user_state.staked_amount, rpt.v,
                                   user_state.reward_per_token_paid,
                                   user_state.rewards_earned)
        staked == checked_add(user_state.staked_amount, amount, U64_MAX)
        total == checked_add(gs.total_staked, amount, U64_MAX)
        xfer == transfer_in(S.stake_vault, amount, xfer_ok)
    IN  IF ~gs.vaults_init THEN Outcome("AccountNotInitialized", S, 0)
        ELSE IF ~(amount > 0) THEN Outcome("InvalidAmount", S, 0)
        ELSE IF rpt.err # "Ok" THEN Outcome("MathOverflow", S, 0)
        ELSE IF earned.err # "Ok" THEN Outcome("MathOverflow", S, 0)
        ELSE IF staked.err # "Ok" THEN Outcome("MathOverflow", S, 0)
        ELSE IF total.err # "Ok" THEN Outcome("MathOverflow", S, 0)
        ELSE IF xfer.err # "Ok" THEN Outcome("TransferFailed", S, 0)
        ELSE Outcome("Ok",
                 [S EXCEPT !.gs = [gs EXCEPT !.reward_per_token_stored = rpt.v,
                                             !.last_update_time = current_time,
                                             !.total_staked = total.v],
                           !.us[user] = [user_state EXCEPT
                                             !.rewards_earned = earned.v,
                                             !.reward_per_token_paid = rpt.v,
                                             !.staked_amount = staked.v],
                           !.stake_vault = xfer.v],
                 0)

\* Mutant of withdraw_total_staked: the pool total is not reduced.
withdraw_total_staked_kept(total_staked, amount) == Ok(total_staked)

\* global_state.total_staked.checked_sub(amount) of withdraw.
withdraw_total_staked(total_staked, amount) == checked_sub(total_staked, amount)

\* Mutant of withdraw: the staked amount is not compared with the request, so
\* an excessive amount is caught only by the checked subtraction.
withdraw_without_funds_check(S, user, amount, current_time, xfer_ok) ==
    LET gs == S.gs
        rpt == settle_pool(gs, current_time)
        user_state == S.us[user]
        earned == calculate_earned(user_state.staked_amount, rpt.v,
                                   user_state.reward_per_token_paid,
                                   user_state.rewards_earned)
        staked == checked_sub(user_state.staked_amount, amount)
        total == withdraw_total_staked(gs.total_staked, amount)
        xfer == transfer_out(S.stake_vault, amount, xfer_ok)
    IN  IF ~user_state.init THEN Outcome("AccountNotInitialized", S, 0)
        ELSE IF ~(amount > 0) THEN Outcome("InvalidAmount", S, 0)
        ELSE IF rpt.err # "Ok" THEN Outcome("MathOverflow", S, 0)
        ELSE IF earned.err # "Ok" THEN Outcome("MathOverflow", S, 0)
        ELSE IF staked.err # "Ok" THEN Outcome("MathOverflow", S, 0)
        ELSE IF total.err # "Ok" THEN Outcome("MathOverflow", S, 0)
        ELSE IF xfer.err # "Ok" THEN Outcome("TransferFailed", S, 0)
        ELSE Outcome("Ok",
                 [S EXCEPT !.gs = [gs EXCEPT !.reward_per_token_stored = rpt.v,
                                             !.last_update_time = current_time,
                                             !.total_staked = total.v],
                           !.us[user] = [user_state EXCEPT
                                             !.rewards_earned = earned.v,
                                             !.reward_per_token_paid = rpt.v,
                                             !.staked_amount = staked.v],
                           !.stake_vault = xfer.v],
                 0)

\* Mutant of withdraw: the caller's reward_per_token_paid is left where it
\* was.
withdraw_keeping_checkpoint(S, user, amount, current_time, xfer_ok) ==
    LET gs == S.gs
        rpt == settle_pool(gs, current_time)
        user_state == S.us[user]
        earned == calculate_earned(user_state.staked_amount, rpt.v,
                                   user_state.reward_per_token_paid,
                                   user_state.rewards_earned)
        staked == checked_sub(user_state.staked_amount, amount)
        total == withdraw_total_staked(gs.total_staked, amount)
        xfer == transfer_out(S.stake_vault, amount, xfer_ok)
    IN  IF ~user_state.init THEN Outcome("AccountNotInitialized", S, 0)
        ELSE IF ~(amount > 0) THEN Outcome("InvalidAmount", S, 0)
        ELSE IF rpt.err # "Ok" THEN Outcome("MathOverflow", S, 0)
        ELSE IF ~(user_state.staked_amount >= amount)
             THEN Outcome("InsufficientFunds", S, 0)
        ELSE IF earned.err # "Ok" THEN Outcome("MathOverflow", S, 0)
        ELSE IF staked.err # "Ok" THEN Outcome("MathOverflow", S, 0)
        ELSE IF total.err # "Ok" THEN Outcome("MathOverflow", S, 0)
        ELSE IF xfer.err # "Ok" THEN Outcome("TransferFailed", S, 0)
        ELSE Outcome("Ok",
                 [S EXCEPT !.gs = [gs EXCEPT !.reward_per_token_stored = rpt.v,
                                             !.last_update_time = current_time,
                                             !.total_staked = total.v],
                           !.us[user] = [user_state EXCEPT
                                             !.rewards_earned = earned.v,
                                             !.staked_amount = staked.v],
                           !.stake_vault = xfer.v],
                 0)

\* Mutant of withdraw: the principal is reduced before the position is
\* settled, so the reward is computed on the amount that remains.
withdraw_settling_after(S, user, amount, current_time, xfer_ok) ==
    LET gs == S.gs
        rpt == settle_pool(gs, current_time)
        user_state == S.us[user]
        earned == calculate_earned(user_state.staked_amount - amount, rpt.v,
                                   user_state.reward_per_token_paid,
                                   user_state.rewards_earned)
        staked == checked_sub(user_state.staked_amount, amount)
        total == checked_sub(gs.total_staked, amount)
        xfer == transfer_out(S.stake_vault, amount, xfer_ok)
    IN  IF ~user_state.init THEN Outcome("AccountNotInitialized", S, 0)
        ELSE IF ~(amount > 0) THEN Outcome("InvalidAmount", S, 0)
        ELSE IF rpt.err # "Ok" THEN Outcome("MathOverflow", S, 0)
        ELSE IF ~(user_state.staked_amount >= amount)
             THEN Outcome("InsufficientFunds", S, 0)
        ELSE IF earned.err # "Ok" THEN Outcome("MathOverflow", S, 0)
        ELSE IF staked.err # "Ok" THEN Outcome("MathOverflow", S, 0)
        ELSE IF total.err # "Ok" THEN Outcome("MathOverflow", S, 0)
        ELSE IF xfer.err # "Ok" THEN Outcome("TransferFailed", S, 0)
        ELSE Outcome("Ok",
                 [S EXCEPT !.gs = [gs EXCEPT !.reward_per_token_stored = rpt.v,
                                             !.last_update_time = current_time,
                                             !.total_staked = total.v],
                           !.us[user] = [user_state EXCEPT
                                             !.rewards_earned = earned.v,
                                             !.reward_per_token_paid = rpt.v,
                                             !.staked_amount = staked.v],
                           !.stake_vault = xfer.v],
                 0)

withdraw(S, user, amount, current_time, xfer_ok) ==
    LET gs == S.gs
        rpt == settle_pool(gs, current_time)
        user_state == S.us[user]
        earned == calculate_earned(user_state.staked_amount, rpt.v,
                                   user_state.reward_per_token_paid,
                                   user_state.rewards_earned)
        staked == checked_sub(user_state.staked_amount, amount)
        total == withdraw_total_staked(gs.total_staked, amount)
        xfer == transfer_out(S.stake_vault, amount, xfer_ok)
    IN  IF ~user_state.init THEN Outcome("AccountNotInitialized", S, 0)
        ELSE IF ~(amount > 0) THEN Outcome("InvalidAmount", S, 0)
        ELSE IF rpt.err # "Ok" THEN Outcome("MathOverflow", S, 0)
        ELSE IF ~(user_state.staked_amount >= amount)
             THEN Outcome("InsufficientFunds", S, 0)
        ELSE IF earned.err # "Ok" THEN Outcome("MathOverflow", S, 0)
        ELSE IF staked.err # "Ok" THEN Outcome("MathOverflow", S, 0)
        ELSE IF total.err # "Ok" THEN Outcome("MathOverflow", S, 0)
        ELSE IF xfer.err # "Ok" THEN Outcome("TransferFailed", S, 0)
        ELSE Outcome("Ok",
                 [S EXCEPT !.gs = [gs EXCEPT !.reward_per_token_stored = rpt.v,
                                             !.last_update_time = current_time,
                                             !.total_staked = total.v],
                           !.us[user] = [user_state EXCEPT
                                             !.rewards_earned = earned.v,
                                             !.reward_per_token_paid = rpt.v,
                                             !.staked_amount = staked.v],
                           !.stake_vault = xfer.v],
                 0)

\* Mutant of claim_reward: the reward paid is also added to the principal.
claim_reward_compounding(S, user, current_time, xfer_ok) ==
    LET gs == S.gs
        rpt == settle_pool(gs, current_time)
        user_state == S.us[user]
        earned == calculate_earned(user_state.staked_amount, rpt.v,
                                   user_state.reward_per_token_paid,
                                   user_state.rewards_earned)
        reward_amount == earned.v
        xfer == transfer_out(S.reward_vault, reward_amount, xfer_ok)
    IN  IF ~user_state.init THEN Outcome("AccountNotInitialized", S, 0)
        ELSE IF rpt.err # "Ok" THEN Outcome("MathOverflow", S, 0)
        ELSE IF earned.err # "Ok" THEN Outcome("MathOverflow", S, 0)
        ELSE IF ~(reward_amount > 0) THEN Outcome("NoRewardsToClaim", S, 0)
        ELSE IF xfer.err # "Ok" THEN Outcome("TransferFailed", S, 0)
        ELSE Outcome("Ok",
                 [S EXCEPT !.gs = [gs EXCEPT !.reward_per_token_stored = rpt.v,
                                             !.last_update_time = current_time,
                                             !.total_staked = @ + reward_amount],
                           !.us[user] = [user_state EXCEPT
                                             !.rewards_earned = 0,
                                             !.staked_amount = @ + reward_amount,
                                             !.reward_per_token_paid = rpt.v],
                           !.reward_vault = xfer.v,
                           !.received[user] = @ + reward_amount],
                 reward_amount)

\* Mutant of claim_reward: a failed transfer leaves the settlement of the pool
\* and of the caller in the accounts.
claim_reward_keeping_settlement(S, user, current_time, xfer_ok) ==
    LET gs == S.gs
        rpt == settle_pool(gs, current_time)
        user_state == S.us[user]
        earned == calculate_earned(user_state.staked_amount, rpt.v,
                                   user_state.reward_per_token_paid,
                                   user_state.rewards_earned)
        reward_amount == earned.v
        xfer == transfer_out(S.reward_vault, reward_amount, xfer_ok)
        settled_only == [S EXCEPT !.gs = [gs EXCEPT !.reward_per_token_stored = rpt.v,
                                                    !.last_update_time = current_time],
                                  !.us[user] = [user_state EXCEPT
                                                    !.rewards_earned = earned.v,
                                                    !.reward_per_token_paid = rpt.v]]
    IN  IF ~user_state.init THEN Outcome("AccountNotInitialized", S, 0)
        ELSE IF rpt.err # "Ok" THEN Outcome("MathOverflow", S, 0)
        ELSE IF earned.err # "Ok" THEN Outcome("MathOverflow", S, 0)
        ELSE IF ~(reward_amount > 0) THEN Outcome("NoRewardsToClaim", S, 0)
        ELSE IF xfer.err # "Ok" THEN Outcome("TransferFailed", settled_only, 0)
        ELSE Outcome("Ok",
                 [S EXCEPT !.gs = [gs EXCEPT !.reward_per_token_stored = rpt.v,
                                             !.last_update_time = current_time],
                           !.us[user] = [user_state EXCEPT
                                             !.rewards_earned = 0,
                                             !.reward_per_token_paid = rpt.v],
                           !.reward_vault = xfer.v,
                           !.received[user] = @ + reward_amount],
                 reward_amount)

\* Mutant of claim_reward: pays the rewards_earned stored in the account,
\* without the reward accrued since the position was last settled.
claim_reward_paying_stored(S, user, current_time, xfer_ok) ==
    LET gs == S.gs
        rpt == settle_pool(gs, current_time)
        user_state == S.us[user]
        earned == calculate_earned(user_state.staked_amount, rpt.v,
                                   user_state.reward_per_token_paid,
                                   user_state.rewards_earned)
        reward_amount == user_state.rewards_earned
        xfer == transfer_out(S.reward_vault, reward_amount, xfer_ok)
    IN  IF ~user_state.init THEN Outcome("AccountNotInitialized", S, 0)
        ELSE IF rpt.err # "Ok" THEN Outcome("MathOverflow", S, 0)
        ELSE IF earned.err # "Ok" THEN Outcome("MathOverflow", S, 0)
        ELSE IF ~(reward_amount > 0) THEN Outcome("NoRewardsToClaim", S, 0)
        ELSE IF xfer.err # "Ok" THEN Outcome("TransferFailed", S, 0)
        ELSE Outcome("Ok",
                 [S EXCEPT !.gs = [gs EXCEPT !.reward_per_token_stored = rpt.v,
                                             !.last_update_time = current_time],
                           !.us[user] = [user_state EXCEPT
                                             !.rewards_earned = 0,
                                             !.reward_per_token_paid = rpt.v],
                           !.reward_vault = xfer.v,
                           !.received[user] = @ + reward_amount],
                 reward_amount)

claim_reward(S, user, current_time, xfer_ok) ==
    LET gs == S.gs
        rpt == settle_pool(gs, current_time)
        user_state == S.us[user]
        earned == calculate_earned(user_state.staked_amount, rpt.v,
                                   user_state.reward_per_token_paid,
                                   user_state.rewards_earned)
        reward_amount == earned.v
        xfer == transfer_out(S.reward_vault, reward_amount, xfer_ok)
    IN  IF ~user_state.init THEN Outcome("AccountNotInitialized", S, 0)
        ELSE IF rpt.err # "Ok" THEN Outcome("MathOverflow", S, 0)
        ELSE IF earned.err # "Ok" THEN Outcome("MathOverflow", S, 0)
        ELSE IF ~(reward_amount > 0) THEN Outcome("NoRewardsToClaim", S, 0)
        ELSE IF xfer.err # "Ok" THEN Outcome("TransferFailed", S, 0)
        ELSE Outcome("Ok",
                 [S EXCEPT !.gs = [gs EXCEPT !.reward_per_token_stored = rpt.v,
                                             !.last_update_time = current_time],
                           !.us[user] = [user_state EXCEPT
                                             !.rewards_earned = 0,
                                             !.reward_per_token_paid = rpt.v],
                           !.reward_vault = xfer.v,
                           !.received[user] = @ + reward_amount],
                 reward_amount)


\* ------------------------------------------------------------ wave_stake
\* The lock variant.  The model has one pool (one pool_id).  Amounts stay far
\* below U128_MAX / BPS, so the 128-bit product of user_share never
\* overflows, as it never does in the program.
BPS == 10000
U16_MAX == 65535

NoUser ==
    [init |-> FALSE, amount |-> 0, lock_type |-> 0,
     lock_start_timestamp |-> 0, lock_end_timestamp |-> 0,
     bonus_multiplier |-> 0, last_reward_claim_timestamp |-> 0]

NoPool ==
    [init |-> FALSE, reward_per_second |-> 0, lock_duration |-> 0,
     lock_bonus_percentage |-> 0, total_staked |-> 0,
     total_reward_distributed |-> 0, last_update_timestamp |-> 0,
     authority |-> ""]

\* Option<T>: None is the empty sequence, Some(v) is <<v>>.
None == <<>>
Some(v) == <<v>>

\* The accounts after initialize(authority): the global state exists, no pool
\* and no user account does; pool_authority is the balance of staked tokens
\* held by the pool authority.
initialize(authority) ==
    [global_state |-> [init |-> TRUE, authority |-> authority, pool_count |-> 0],
     pool |-> NoPool,
     user |-> [u \in Users |-> NoUser],
     pool_authority |-> 0]

\* Before initialize: no account of the program exists.
NoLockAccounts ==
    [global_state |-> [init |-> FALSE, authority |-> "", pool_count |-> 0],
     pool |-> NoPool,
     user |-> [u \in Users |-> NoUser],
     pool_authority |-> 0]

create_user_account(L, payer, current_time) ==
    IF ~L.pool.init THEN Outcome("AccountNotInitialized", L, 0)
    ELSE IF L.user[payer].init THEN Outcome("AccountAlreadyInUse", L, 0)
    ELSE Outcome("Ok",
             [L EXCEPT !.user[payer] =
                 [init |-> TRUE, amount |-> 0, lock_type |-> 0,
                  lock_start_timestamp |-> 0, lock_end_timestamp |-> 0,
                  bonus_multiplier |-> BPS,
                  last_reward_claim_timestamp |-> current_time]],
             0)

create_pool(L, authority, reward_per_second, lock_duration, lock_bonus_percentage, current_time) ==
    IF ~L.global_state.init THEN Outcome("AccountNotInitialized", L, 0)
    ELSE IF L.pool.init THEN Outcome("AccountAlreadyInUse", L, 0)
    ELSE Outcome("Ok",
             [L EXCEPT !.pool =
                 [init |-> TRUE, reward_per_second |-> reward_per_second,
                  lock_duration |-> lock_duration,
                  lock_bonus_percentage |-> lock_bonus_percentage,
                  total_staked |-> 0, total_reward_distributed |-> 0,
                  last_update_timestamp |-> current_time,
                  authority |-> authority],
                       !.global_state.pool_count = @ + 1],
             0)

\* reward_per_second * time_elapsed * user_share * bonus_multiplier / 10000,
\* as unstake and claim_rewards compute it, every product checked in 64 bits.
pending_rewards(pool, user, current_time) ==
    LET time_elapsed == as_u64(current_time - user.last_reward_claim_timestamp)
        scaled == checked_mul(user.amount, BPS, U128_MAX)
        share == IF scaled.err = "Ok" THEN checked_div(scaled.v, pool.total_staked)
                 ELSE scaled
        user_share == IF pool.total_staked > 0
                      THEN (IF share.err = "Ok" THEN Ok(as_u64(share.v)) ELSE share)
                      ELSE Ok(0)
        p1 == checked_mul(pool.reward_per_second, time_elapsed, U64_MAX)
        p2 == IF p1.err = "Ok" /\ user_share.err = "Ok"
              THEN checked_mul(p1.v, user_share.v, U64_MAX) ELSE Err("MathOverflow")
        p3 == IF p2.err = "Ok"
              THEN checked_mul(p2.v, user.bonus_multiplier, U64_MAX) ELSE p2
    IN  IF p3.err = "Ok" THEN checked_div(p3.v, BPS) ELSE Err("MathOverflow")

\* stake of wave_stake.  The two sums of a locked first stake are unchecked:
\* on overflow the build either wraps (wraps = TRUE) or panics.
wave_stake_stake(L, payer, amount, lock_type, current_time, xfer_ok, wraps) ==
    LET pool == L.pool
        user == L.user[payer]
        time_elapsed == as_u64(current_time - pool.last_update_timestamp)
        accrue == time_elapsed > 0 /\ pool.total_staked > 0
        rewards_to_distribute == checked_mul(pool.reward_per_second, time_elapsed, U64_MAX)
        distributed == IF ~accrue THEN Ok(pool.total_reward_distributed)
                       ELSE IF rewards_to_distribute.err # "Ok" THEN rewards_to_distribute
                       ELSE checked_add(pool.total_reward_distributed,
                                        rewards_to_distribute.v, U64_MAX)
        is_new_user == user.amount = 0
        new_amount == checked_add(user.amount, amount, U64_MAX)
        lock_end == current_time + as_i64(pool.lock_duration)
        bonus == BPS + pool.lock_bonus_percentage
        overflows == \/ lock_end > I64_MAX \/ lock_end < I64_MIN \/ bonus > U16_MAX
        locked == is_new_user /\ lock_type = 1
        total == checked_add(pool.total_staked, amount, U64_MAX)
        xfer == transfer_in(L.pool_authority, amount, xfer_ok)
        staked == IF ~is_new_user
                  THEN [user EXCEPT !.amount = new_amount.v,
                                    !.last_reward_claim_timestamp = current_time]
                  ELSE IF lock_type = 1
                  THEN [user EXCEPT !.amount = new_amount.v,
                                    !.lock_type = lock_type,
                                    !.lock_start_timestamp = current_time,
                                    !.lock_end_timestamp = as_i64(lock_end),
                                    !.bonus_multiplier = bonus % (U16_MAX + 1),
                                    !.last_reward_claim_timestamp = current_time]
                  ELSE [user EXCEPT !.amount = new_amount.v,
                                    !.lock_type = lock_type,
                                    !.lock_start_timestamp = 0,
                                    !.lock_end_timestamp = 0,
                                    !.bonus_multiplier = BPS,
                                    !.last_reward_claim_timestamp = current_time]
    IN  IF ~pool.init \/ ~user.init THEN Outcome("AccountNotInitialized", L, 0)
        ELSE IF ~(amount > 0) THEN Outcome("InvalidAmount", L, 0)
        ELSE IF distributed.err # "Ok" THEN Outcome("MathOverflow", L, 0)
        ELSE IF new_amount.err # "Ok" THEN Outcome("MathOverflow", L, 0)
        ELSE IF locked /\ overflows /\ ~wraps THEN Outcome("Panic", L, 0)
        ELSE IF total.err # "Ok" THEN Outcome("MathOverflow", L, 0)
        ELSE IF xfer.err # "Ok" THEN Outcome("TransferFailed", L, 0)
        ELSE Outcome("Ok",
                 [L EXCEPT !.pool = [pool EXCEPT
                                        !.total_reward_distributed = distributed.v,
                                        !.last_update_timestamp = current_time,
                                        !.total_staked = total.v],
                           !.user[payer] = staked,
                           !.pool_authority = xfer.v],
                 0)

\* Mutant of unstake: the lock period is not checked.
unstake_ignoring_lock(L, authority, amount, current_time, xfer_ok) ==
    LET pool == L.pool
        user == L.user[authority]
    IN  IF ~pool.init \/ ~user.init THEN Outcome("AccountNotInitialized", L, 0)
        ELSE IF ~(amount > 0) THEN Outcome("InvalidAmount", L, 0)
        ELSE IF ~(user.amount >= amount) THEN Outcome("InsufficientStake", L, 0)
        ELSE Outcome("Ok",
                 [L EXCEPT !.pool.total_staked = @ - amount,
                           !.user[authority].amount = @ - amount,
                           !.user[authority].last_reward_claim_timestamp = current_time,
                           !.pool_authority = @ - amount],
                 0)

unstake(L, authority, amount, current_time, xfer_ok) ==
    LET pool == L.pool
        user == L.user[authority]
        pending == pending_rewards(pool, user, current_time)
        new_amount == checked_sub(user.amount, amount)
        total == checked_sub(pool.total_staked, amount)
        xfer == transfer_out(L.pool_authority, amount, xfer_ok)
    IN  IF ~pool.init \/ ~user.init THEN Outcome("AccountNotInitialized", L, 0)
        ELSE IF ~(amount > 0) THEN Outcome("InvalidAmount", L, 0)
        ELSE IF ~(user.amount >= amount) THEN Outcome("InsufficientStake", L, 0)
        ELSE IF user.lock_type = 1 /\ ~(current_time >= user.lock_end_timestamp)
             THEN Outcome("StillInLockPeriod", L, 0)
        ELSE IF pending.err # "Ok" THEN Outcome("MathOverflow", L, 0)
        ELSE IF new_amount.err # "Ok" THEN Outcome("MathOverflow", L, 0)
        ELSE IF total.err # "Ok" THEN Outcome("MathOverflow", L, 0)
        ELSE IF xfer.err # "Ok" THEN Outcome("TransferFailed", L, 0)
        ELSE Outcome("Ok",
                 [L EXCEPT !.pool.total_staked = total.v,
                           !.user[authority].amount = new_amount.v,
                           !.user[authority].last_reward_claim_timestamp = current_time,
                           !.pool_authority = xfer.v],
                 0)

\* Mutant of claim_rewards: last_reward_claim_timestamp is not advanced.
claim_rewards_keeping_timestamp(L, authority, current_time) ==
    LET pool == L.pool
        user == L.user[authority]
        rewards == pending_rewards(pool, user, current_time)
    IN  IF ~pool.init \/ ~user.init THEN Outcome("AccountNotInitialized", L, 0)
        ELSE IF rewards.err # "Ok" THEN Outcome("MathOverflow", L, 0)
        ELSE IF ~(rewards.v > 0) THEN Outcome("NoRewardsAvailable", L, 0)
        ELSE Outcome("Ok",
                 [L EXCEPT !.pool.total_reward_distributed = @ + rewards.v],
                 rewards.v)

\* claim_rewards credits the reward: it records it in
\* pool.total_reward_distributed and moves no token.
claim_rewards(L, authority, current_time) ==
    LET pool == L.pool
        user == L.user[authority]
        rewards == pending_rewards(pool, user, current_time)
        distributed == checked_add(pool.total_reward_distributed,
                                   IF rewards.err = "Ok" THEN rewards.v ELSE 0,
                                   U64_MAX)
    IN  IF ~pool.init \/ ~user.init THEN Outcome("AccountNotInitialized", L, 0)
        ELSE IF rewards.err # "Ok" THEN Outcome("MathOverflow", L, 0)
        ELSE IF ~(rewards.v > 0) THEN Outcome("NoRewardsAvailable", L, 0)
        ELSE IF distributed.err # "Ok" THEN Outcome("MathOverflow", L, 0)
        ELSE Outcome("Ok",
                 [L EXCEPT !.user[authority].last_reward_claim_timestamp = current_time,
                           !.pool.total_reward_distributed = distributed.v],
                 rewards.v)

\* update_pool accepts any signer: its accounts carry no constraint that ties
\* the signer to pool.authority.
update_pool(L, signer, new_reward_per_second, new_lock_duration, new_lock_bonus_percentage) ==
    LET pool == L.pool
        pick(opt, old) == IF opt = None THEN old ELSE opt[1]
    IN  IF ~pool.init THEN Outcome("AccountNotInitialized", L, 0)
        ELSE Outcome("Ok",
                 [L EXCEPT !.pool = [pool EXCEPT
                     !.reward_per_second = pick(new_reward_per_second, @),
                     !.lock_duration = pick(new_lock_duration, @),
                     !.lock_bonus_percentage = pick(new_lock_bonus_percentage, @)]],
                 0)

\* close_user_account closes the account whatever amount it holds, and leaves
\* the pool and the tokens held by the pool authority as they are.
close_user_account(L, authority, current_time) ==
    LET user == L.user[authority]
    IN  IF ~L.pool.init \/ ~user.init THEN Outcome("AccountNotInitialized", L, 0)
        ELSE IF user.lock_type = 1 /\ ~(current_time >= user.lock_end_timestamp)
             THEN Outcome("StillInLockPeriod", L, 0)
        ELSE Outcome("Ok", [L EXCEPT !.user[authority] = NoUser], 0)


\* ------------------------------------------------------------ state
VARIABLES
    program,        \* which of the two programs this deployment runs
    now,            \* Clock::get()?.unix_timestamp
    gs,             \* waveswap_stake GlobalState
    us,             \* waveswap_stake UserState of every user
    stake_vault,    \* token balance of the stake vault
    reward_vault,   \* token balance of the reward vault
    received,       \* reward tokens paid out to each user's token account
    global_state,   \* wave_stake GlobalState
    pool_account,   \* wave_stake Pool
    user_account,   \* wave_stake User account of every user
    pool_authority, \* staked tokens held by the wave_stake pool authority
    last,           \* the last committed transaction (or clock tick)
    settled         \* history: when each position was last settled, and
                    \* whether it has been the only staker ever since

accumulatorAccounts == <<gs, us, stake_vault, reward_vault, received>>
lockAccounts == <<global_state, pool_account, user_account, pool_authority>>

vars == <<program, now, accumulatorAccounts, lockAccounts, last, settled>>

\* The waveswap_stake accounts as one value.
State ==
    [gs |-> gs, us |-> us, stake_vault |-> stake_vault,
     reward_vault |-> reward_vault, received |-> received]

\* The record of a committed transaction: the instruction, its signer, its
\* amount and the reward tokens it moved out of the reward vault.  A failed
\* transaction commits nothing and leaves no record.
Tx(op, user, amount, out) ==
    IF out.res = "Ok"
    THEN [op |-> op, user |-> user, amount |-> amount, paid |-> out.paid]
    ELSE last

NoTx(op) == [op |-> op, user |-> "", amount |-> 0, paid |-> 0]

\* The history of settlements after user's stake, withdraw or claim_reward
\* (op) with outcome out: the caller's position is settled now; a stake ends
\* every other position's time as the only staker.
SettledAfter(op, user, out) ==
    IF out.res # "Ok" THEN settled
    ELSE [u \in Users |->
            IF u = user
            THEN [at |-> now,
                  alone |-> \A w \in Users \ {u} : out.S.us[w].staked_amount = 0]
            ELSE IF op = "stake" THEN [settled[u] EXCEPT !.alone = FALSE]
            ELSE settled[u]]

\* A waveswap_stake transaction writes the accounts of the deployed
\* waveswap_stake program.
Commit(out) ==
    /\ program = "waveswap_stake"
    /\ gs' = out.S.gs
    /\ us' = out.S.us
    /\ stake_vault' = out.S.stake_vault
    /\ reward_vault' = out.S.reward_vault
    /\ received' = out.S.received

InitAccumulator ==
    /\ program = "waveswap_stake"
    /\ now = 0
    /\ gs = initialize_config(0).gs
    /\ us = initialize_config(0).us
    /\ stake_vault = 0
    /\ reward_vault = 0
    /\ received = initialize_config(0).received
    /\ last = NoTx("initialize_config")
    /\ settled = [u \in Users |-> [at |-> 0, alone |-> FALSE]]
    /\ global_state = NoLockAccounts.global_state
    /\ pool_account = NoLockAccounts.pool
    /\ user_account = NoLockAccounts.user
    /\ pool_authority = NoLockAccounts.pool_authority

\* The clock moves on by dt seconds.
Tick(dt, max) ==
    /\ now + dt <= max
    /\ now' = now + dt
    /\ last' = NoTx("tick")
    /\ UNCHANGED <<program, accumulatorAccounts, lockAccounts, settled>>

SetRewards(signer, total_reward, duration, start_time, xfer_ok, cap) ==
    /\ reward_vault + total_reward <= cap
    /\ LET out == set_rewards(State, signer, total_reward, duration, start_time,
                              now, xfer_ok)
       IN  /\ Commit(out)
           /\ last' = Tx("set_rewards", signer, total_reward, out)
    /\ UNCHANGED <<program, now, settled, lockAccounts>>

Stake(user, amount, xfer_ok, cap) ==
    /\ gs.total_staked + amount <= cap
    /\ LET out == stake(State, user, amount, now, xfer_ok)
       IN  /\ Commit(out)
           /\ last' = Tx("stake", user, amount, out)
           /\ settled' = SettledAfter("stake", user, out)
    /\ UNCHANGED <<program, now, lockAccounts>>

Withdraw(user, amount, xfer_ok) ==
    /\ LET out == withdraw(State, user, amount, now, xfer_ok)
       IN  /\ Commit(out)
           /\ last' = Tx("withdraw", user, amount, out)
           /\ settled' = SettledAfter("withdraw", user, out)
    /\ UNCHANGED <<program, now, lockAccounts>>

ClaimReward(user, xfer_ok) ==
    /\ LET out == claim_reward(State, user, now, xfer_ok)
       IN  /\ Commit(out)
           /\ last' = Tx("claim_reward", user, 0, out)
           /\ settled' = SettledAfter("claim_reward", user, out)
    /\ UNCHANGED <<program, now, lockAccounts>>

\* The inputs the environment submits.  set_rewards: the well-formed calls of
\* the admin (a window of 1 or 2 seconds starting now or in a second), and
\* one call for each check that can reject it.
SetRewardsInputs ==
    {[signer |-> Admin, total_reward |-> RewardTotal, duration |-> d, start_time |-> s] :
        d \in 1..MaxDuration, s \in {now, now + 1}}
    \cup {[signer |-> "alice", total_reward |-> RewardTotal, duration |-> 1, start_time |-> now],
          [signer |-> Admin, total_reward |-> 0, duration |-> 1, start_time |-> now],
          [signer |-> Admin, total_reward |-> RewardTotal, duration |-> 0, start_time |-> now],
          [signer |-> Admin, total_reward |-> RewardTotal, duration |-> 1, start_time |-> now - 1]}

NextAccumulator ==
    \/ Tick(1, MaxTime)
    \/ \E i \in SetRewardsInputs, xfer_ok \in BOOLEAN :
            SetRewards(i.signer, i.total_reward, i.duration, i.start_time,
                       xfer_ok, MaxFundings * RewardTotal)
    \/ \E user \in Users, amount \in 0..MaxAmount, xfer_ok \in BOOLEAN :
            Stake(user, amount, xfer_ok, MaxTotalStaked)
    \/ \E user \in Users, amount \in 0..MaxAmount, xfer_ok \in BOOLEAN :
            Withdraw(user, amount, xfer_ok)
    \/ \E user \in Users, xfer_ok \in BOOLEAN : ClaimReward(user, xfer_ok)

Spec == InitAccumulator /\ [][NextAccumulator]_vars


\* The scenario of the specification's section 8: 604800 reward units over
\* 604800 seconds from t = 0 (1 unit per second); alice stakes 1,000,000 at
\* t = 0, bob stakes 1,000,000 at t = 100; nothing else touches the pool but
\* claim_reward, which either of them may call at any time.  The clock is
\* read every 50 seconds.
ScenarioReward == 604800
ScenarioPrincipal == 1000000

NextScenario ==
    \/ Tick(50, ScenarioTicks * 50)
    \/ \E xfer_ok \in BOOLEAN :
            SetRewards(Admin, ScenarioReward, ScenarioReward, 0, xfer_ok,
                       ScenarioReward)
    \/ \E xfer_ok \in BOOLEAN :
            /\ now = 0
            /\ us["alice"].staked_amount = 0
            /\ Stake("alice", ScenarioPrincipal, xfer_ok, 2 * ScenarioPrincipal)
    \/ \E xfer_ok \in BOOLEAN :
            /\ now = 100
            /\ us["bob"].staked_amount = 0
            /\ Stake("bob", ScenarioPrincipal, xfer_ok, 2 * ScenarioPrincipal)
    \/ \E user \in Users, xfer_ok \in BOOLEAN : ClaimReward(user, xfer_ok)

SpecScenario == InitAccumulator /\ [][NextScenario]_vars

\* One emission window of LongTime reward units over LongTime seconds from
\* t = 0 (1 unit per second); alice stakes and withdraws 3 units at a time,
\* bob 1 unit: room for a position to be settled over several seconds, with
\* other transactions settling the pool in between.
LongAmount == [alice |-> 3, bob |-> 1]

LongTransactions ==
    \/ \E xfer_ok \in BOOLEAN :
            SetRewards(Admin, LongTime, LongTime, 0, xfer_ok, LongTime)
    \/ \E user \in Users, xfer_ok \in BOOLEAN :
            /\ us[user].staked_amount = 0
            /\ Stake(user, LongAmount[user], xfer_ok, 4)
    \/ \E user \in Users, xfer_ok \in BOOLEAN :
            Withdraw(user, LongAmount[user], xfer_ok)
    \/ \E user \in Users, xfer_ok \in BOOLEAN : ClaimReward(user, xfer_ok)

NextLong ==
    \/ Tick(1, LongTime)
    \/ LongTransactions

SpecLong == InitAccumulator /\ [][NextLong]_vars

\* ------------------------------------------------------------ wave_stake transactions
\* The wave_stake accounts as one value.
LockState ==
    [global_state |-> global_state, pool |-> pool_account,
     user |-> user_account, pool_authority |-> pool_authority]

CommitLock(out) ==
    /\ program = "wave_stake"
    /\ global_state' = out.S.global_state
    /\ pool_account' = out.S.pool
    /\ user_account' = out.S.user
    /\ pool_authority' = out.S.pool_authority

\* The history after a committed wave_stake transaction: stake, unstake and
\* claim_rewards restart the caller's claim interval, and the caller is alone
\* when the pool's total_staked is its own amount; a stake ends every other
\* position's time as the only staker, and so does a change of the rate.
LockSettledAfter(op, user, out) ==
    IF out.res # "Ok" THEN settled
    ELSE [u \in Users |->
            IF op = "update_pool"
            THEN (IF out.S.pool.reward_per_second = pool_account.reward_per_second
                  THEN settled[u] ELSE [settled[u] EXCEPT !.alone = FALSE])
            ELSE IF u # user
            THEN (IF op = "stake" THEN [settled[u] EXCEPT !.alone = FALSE]
                  ELSE settled[u])
            ELSE IF op = "close_user_account" THEN [at |-> 0, alone |-> FALSE]
            ELSE [at |-> now,
                  alone |-> /\ out.S.user[u].amount > 0
                            /\ out.S.pool.total_staked = out.S.user[u].amount]]

InitLock ==
    /\ program = "wave_stake"
    /\ now = 0
    /\ global_state = initialize(Admin).global_state
    /\ pool_account = initialize(Admin).pool
    /\ user_account = initialize(Admin).user
    /\ pool_authority = initialize(Admin).pool_authority
    /\ last = NoTx("initialize")
    /\ settled = [u \in Users |-> [at |-> 0, alone |-> FALSE]]
    /\ gs = initialize_config(0).gs
    /\ us = initialize_config(0).us
    /\ stake_vault = 0
    /\ reward_vault = 0
    /\ received = initialize_config(0).received

CreatePool(authority, reward_per_second, lock_duration, lock_bonus_percentage) ==
    /\ LET out == create_pool(LockState, authority, reward_per_second,
                              lock_duration, lock_bonus_percentage, now)
       IN  /\ CommitLock(out)
           /\ last' = Tx("create_pool", authority, 0, out)
           /\ settled' = LockSettledAfter("create_pool", authority, out)
    /\ UNCHANGED <<program, now, accumulatorAccounts>>

CreateUserAccount(payer) ==
    /\ LET out == create_user_account(LockState, payer, now)
       IN  /\ CommitLock(out)
           /\ last' = Tx("create_user_account", payer, 0, out)
           /\ settled' = LockSettledAfter("create_user_account", payer, out)
    /\ UNCHANGED <<program, now, accumulatorAccounts>>

StakeLock(payer, amount, lock_type, xfer_ok, wraps, cap) ==
    /\ pool_account.total_staked + amount <= cap
    /\ LET out == wave_stake_stake(LockState, payer, amount, lock_type, now,
                                   xfer_ok, wraps)
       IN  /\ CommitLock(out)
           /\ last' = Tx("stake", payer, amount, out)
           /\ settled' = LockSettledAfter("stake", payer, out)
    /\ UNCHANGED <<program, now, accumulatorAccounts>>

Unstake(authority, amount, xfer_ok) ==
    /\ LET out == unstake(LockState, authority, amount, now, xfer_ok)
       IN  /\ CommitLock(out)
           /\ last' = Tx("unstake", authority, amount, out)
           /\ settled' = LockSettledAfter("unstake", authority, out)
    /\ UNCHANGED <<program, now, accumulatorAccounts>>

ClaimRewards(authority) ==
    /\ LET out == claim_rewards(LockState, authority, now)
       IN  /\ CommitLock(out)
           /\ last' = Tx("claim_rewards", authority, 0, out)
           /\ settled' = LockSettledAfter("claim_rewards", authority, out)
    /\ UNCHANGED <<program, now, accumulatorAccounts>>

UpdatePool(signer, new_reward_per_second, new_lock_duration, new_lock_bonus_percentage) ==
    /\ LET out == update_pool(LockState, signer, new_reward_per_second,
                              new_lock_duration, new_lock_bonus_percentage)
       IN  /\ CommitLock(out)
           /\ last' = Tx("update_pool", signer, 0, out)
           /\ settled' = LockSettledAfter("update_pool", signer, out)
    /\ UNCHANGED <<program, now, accumulatorAccounts>>

CloseUserAccount(authority) ==
    /\ LET out == close_user_account(LockState, authority, now)
       IN  /\ CommitLock(out)
           /\ last' = Tx("close_user_account", authority, 0, out)
           /\ settled' = LockSettledAfter("close_user_account", authority, out)
    /\ UNCHANGED <<program, now, accumulatorAccounts>>

\* The inputs the environment submits: pools of 1 or 2 reward units per
\* second with a lock of LockDuration seconds and a 50% bonus; update_pool
\* changes the rate.
LockTransactions ==
    \/ \E reward_per_second \in 1..MaxRate :
            CreatePool(Admin, reward_per_second, LockDuration, LockBonus)
    \/ \E payer \in Users : CreateUserAccount(payer)
    \/ \E payer \in Users, amount \in 0..1, lock_type \in {0, 1},
          xfer_ok \in BOOLEAN, wraps \in BOOLEAN :
            StakeLock(payer, amount, lock_type, xfer_ok, wraps, MaxLockStaked)
    \/ \E authority \in Users, amount \in 0..MaxAmount, xfer_ok \in BOOLEAN :
            Unstake(authority, amount, xfer_ok)
    \/ \E authority \in Users : ClaimRewards(authority)
    \/ \E signer \in {Admin, "alice"}, reward_per_second \in 1..MaxRate :
            UpdatePool(signer, Some(reward_per_second), None, None)
    \/ \E authority \in Users : CloseUserAccount(authority)

NextLock ==
    \/ Tick(1, MaxTime)
    \/ LockTransactions

SpecLock == InitLock /\ [][NextLock]_vars

\* Either program deployed: the accumulator variant under the inputs of
\* NextLong, or the lock variant under those of NextLock; a transaction
\* reaches the program it is addressed to.
NextBoth ==
    \/ Tick(1, IF program = "wave_stake" THEN MaxTime ELSE LongTime)
    \/ LongTransactions
    \/ LockTransactions

SpecBoth == (InitAccumulator \/ InitLock) /\ [][NextBoth]_vars

\* ------------------------------------------------------------ helpers of the claims
RECURSIVE SumOver(_, _)
SumOver(f, D) ==
    IF D = {} THEN 0
    ELSE LET x == CHOOSE y \in D : TRUE IN f[x] + SumOver(f, D \ {x})

\* A step that commits a transaction of one of the given instructions.
Committed(ops) == vars' # vars /\ last'.op \in ops

\* ------------------------------------------------------------ claims

\* C1: in waveswap_stake, after every transaction of any sequence of
\* set_rewards, stake, withdraw and claim_reward by any users,
\* global_state.total_staked is the sum of staked_amount over all user states.
C1_TotalStakedIsSum ==
    gs.total_staked = SumOver([u \in Users |-> us[u].staked_amount], Users)

\* C1 witness: a user's withdraw has committed while the other user holds
\* stake.
C1_Witness ==
    /\ last.op = "withdraw"
    /\ last.amount > 0
    /\ \E u \in Users \ {last.user} : us[u].staked_amount > 0

\* C3: in waveswap_stake with reward_rate 1 per second and a window starting
\* at t = 0, alice staking 1,000,000 at t = 0 and bob staking 1,000,000 at
\* t = 100: once both positions are settled at t = 200, alice's rewards_earned
\* plus what she has claimed is exactly 150, bob's is exactly 50, and the two
\* sum to the 200 units emitted.
C3_Settled200 ==
    /\ now = 200
    /\ gs.reward_rate = 1
    /\ gs.start_time = 0
    /\ gs.last_update_time = now
    /\ \A u \in Users :
          /\ us[u].staked_amount = ScenarioPrincipal
          /\ us[u].reward_per_token_paid = gs.reward_per_token_stored

C3_ScenarioShares ==
    C3_Settled200 =>
        /\ us["alice"].rewards_earned + received["alice"] = 150
        /\ us["bob"].rewards_earned + received["bob"] = 50
        /\ SumOver([u \in Users |-> us[u].rewards_earned + received[u]], Users)
             = gs.reward_rate * now

\* C3 witness: both positions have been settled at t = 200 by claim_reward,
\* bob last.
C3_Witness ==
    /\ C3_Settled200
    /\ last.op = "claim_reward"
    /\ last.user = "bob"
    /\ received["alice"] > 0
    /\ received["bob"] > 0

\* C4 as stated: a position that has been the only staker, with principal P,
\* for the dt seconds since it was last settled, all inside the emission
\* window and with reward_rate * dt * 1,000,000 divisible by P, gains exactly
\* reward_rate * dt when it is next settled by stake, withdraw or
\* claim_reward (for claim_reward the gain is part of what is paid out).
C4_ExactWhateverSettledBetween ==
    [][Committed({"stake", "withdraw", "claim_reward"}) =>
        LET u  == last'.user
            P  == us[u].staked_amount
            dt == now - settled[u].at
        IN  (/\ P > 0
             /\ settled[u].alone
             /\ gs.start_time <= settled[u].at
             /\ now <= gs.period_finish
             /\ (gs.reward_rate * dt * PRECISION) % P = 0)
            => us'[u].rewards_earned + last'.paid
                 = us[u].rewards_earned + gs.reward_rate * dt]_vars

\* C4: in waveswap_stake, a position that has been the only staker, with
\* principal P, for the dt seconds since it was last settled, all inside the
\* emission window and with reward_rate * dt * 1,000,000 divisible by P,
\* gains exactly reward_rate * dt when it is next settled by stake, withdraw
\* or claim_reward, provided that no other transaction has settled the pool
\* at a later time than the position in between (each settlement of the pool
\* truncates the accumulator's increment for its own piece of the interval).
C4_SoleStakerExact ==
    [][Committed({"stake", "withdraw", "claim_reward"}) =>
        LET u  == last'.user
            P  == us[u].staked_amount
            dt == now - settled[u].at
        IN  (/\ P > 0
             /\ settled[u].alone
             /\ gs.start_time <= settled[u].at
             /\ now <= gs.period_finish
             /\ gs.last_update_time <= settled[u].at
             /\ (gs.reward_rate * dt * PRECISION) % P = 0)
            => us'[u].rewards_earned + last'.paid
                 = us[u].rewards_earned + gs.reward_rate * dt]_vars

\* C4 witness: the only staker, principal 3 at rate 1, settled by a
\* claim_reward three seconds after its stake, has been paid exactly 3.
C4_Witness ==
    /\ last.op = "claim_reward"
    /\ now = 3
    /\ gs.start_time = 0
    /\ gs.reward_rate = 1
    /\ settled[last.user].alone
    /\ us[last.user].staked_amount = 3
    /\ gs.total_staked = 3
    /\ received[last.user] = 3
    /\ last.paid = 3

\* C6: in waveswap_stake, reward_per_token_stored never decreases, whatever
\* the sequence of transactions, also when total_staked falls to zero and
\* becomes positive again.
C6_AccumulatorMonotonic ==
    [][gs'.reward_per_token_stored >= gs.reward_per_token_stored]_vars

\* C6 witness: a stake has committed into a pool that was empty, after the
\* accumulator had already grown.
C6_Witness ==
    /\ last.op = "stake"
    /\ gs.total_staked = last.amount
    /\ gs.reward_per_token_stored > 0

\* C10: in waveswap_stake, a committed withdraw at time t loses no reward:
\* the position's rewards_earned is its value before the call plus the reward
\* accrued on the staked_amount it had before the call, up to t, and a
\* claim_reward issued next pays out exactly that amount.
C10_WithdrawKeepsReward ==
    [][Committed({"withdraw"}) =>
        LET u == last'.user
            accrued == (us[u].staked_amount
                          * (gs'.reward_per_token_stored
                               - us[u].reward_per_token_paid)) \div PRECISION
            claim == claim_reward(State', u, now', TRUE)
        IN  /\ us'[u].rewards_earned = us[u].rewards_earned + accrued
            /\ us'[u].rewards_earned > 0
                 => claim.res = "Ok" /\ claim.paid = us'[u].rewards_earned]_vars

\* C10 witness: a withdraw of the whole principal has committed and the
\* position still holds reward.
C10_Witness ==
    /\ last.op = "withdraw"
    /\ us[last.user].staked_amount = 0
    /\ us[last.user].rewards_earned > 0


\* A locked position before the end of its lock.
Locked(u) ==
    /\ user_account[u].init
    /\ user_account[u].lock_type = 1
    /\ now < user_account[u].lock_end_timestamp

\* No locked position loses principal, or its account, in this step.
NoLockedAmountDecreases ==
    \A u \in Users :
        Locked(u) => /\ user_account'[u].init
                     /\ user_account'[u].amount >= user_account[u].amount

\* C2: in wave_stake, after every operation of any sequence of
\* create_user_account, stake, unstake, claim_rewards and close_user_account,
\* pool.total_staked is the sum of amount over the user accounts that exist.
C2_TotalStakedIsSumOfLive ==
    pool_account.total_staked
        = SumOver([u \in Users |-> IF user_account[u].init
                                    THEN user_account[u].amount ELSE 0], Users)

\* C5: in wave_stake, a committed claim_rewards of a flexible position
\* (bonus_multiplier 10000) that has been the only staker of the pool, at an
\* unchanged rate, for the dt seconds since its last claim credits exactly
\* reward_per_second * dt.
C5_SoleFlexibleCreditedRateTimesDt ==
    [][Committed({"claim_rewards"}) =>
        LET u  == last'.user
            dt == now - user_account[u].last_reward_claim_timestamp
        IN  (/\ user_account[u].lock_type = 0
             /\ user_account[u].bonus_multiplier = BPS
             /\ settled[u].alone)
            => last'.paid = pool_account.reward_per_second * dt]_vars

\* C7: in both variants, right after a committed claim (same clock time,
\* nothing in between) a second claim by the same user fails, with
\* NoRewardsToClaim in waveswap_stake and NoRewardsAvailable in wave_stake,
\* pays nothing and changes no account.
C7_SecondClaimFails ==
    /\ (program = "waveswap_stake" /\ last.op = "claim_reward") =>
            \A xfer_ok \in BOOLEAN :
                claim_reward(State, last.user, now, xfer_ok)
                    = Outcome("NoRewardsToClaim", State, 0)
    /\ (program = "wave_stake" /\ last.op = "claim_rewards") =>
            claim_rewards(LockState, last.user, now)
                = Outcome("NoRewardsAvailable", LockState, 0)

\* C7 witness: a claim_reward of waveswap_stake has just paid the caller.
C7_Witness ==
    /\ program = "waveswap_stake"
    /\ last.op = "claim_reward"
    /\ last.paid > 0
    /\ received[last.user] >= last.paid
    /\ us[last.user].rewards_earned = 0

\* C8 as stated: for a locked position before its lock_end_timestamp, every
\* unstake fails with StillInLockPeriod, and the position's amount never
\* decreases.
C8_EveryUnstakeStillInLockPeriod ==
    /\ [](\A u \in Users, amount \in 0..MaxAmount, xfer_ok \in BOOLEAN :
            Locked(u) =>
                unstake(LockState, u, amount, now, xfer_ok).res = "StillInLockPeriod")
    /\ [][NoLockedAmountDecreases]_vars

\* C8: in wave_stake, for a position with lock_type 1 at a clock time before
\* its lock_end_timestamp, every unstake fails: with InvalidAmount when
\* amount is 0, with InsufficientStake when amount exceeds the position's
\* amount, and with StillInLockPeriod otherwise; and no step decreases the
\* position's amount or closes its account.
C8_LockEnforced ==
    /\ [](\A u \in Users, amount \in 0..MaxAmount, xfer_ok \in BOOLEAN :
            Locked(u) =>
                unstake(LockState, u, amount, now, xfer_ok).res
                    = IF amount = 0 THEN "InvalidAmount"
                      ELSE IF amount > user_account[u].amount THEN "InsufficientStake"
                      ELSE "StillInLockPeriod")
    /\ [][NoLockedAmountDecreases]_vars

\* C8 witness: a second after its locked stake, still before the end of the
\* lock, a position's unstake of its principal is refused.
C8_Witness ==
    \E u \in Users :
        /\ Locked(u)
        /\ now > user_account[u].lock_start_timestamp
        /\ user_account[u].amount > 0
        /\ unstake(LockState, u, user_account[u].amount, now, TRUE).res
                = "StillInLockPeriod"

\* C9: in wave_stake, unstake with 0 < amount <= user.amount succeeds
\* whenever the position is flexible or its lock has ended, given that the
\* custody transfer succeeds, whatever the rate and the time elapsed since
\* the position's last claim.
C9_UnstakeSucceedsWhenUnlocked ==
    \A u \in Users, amount \in 1..MaxAmount :
        (/\ user_account[u].init
         /\ amount <= user_account[u].amount
         /\ amount <= pool_authority
         /\ ~Locked(u))
        => unstake(LockState, u, amount, now, TRUE).res = "Ok"

\* The wave_stake accounts after the step.
LockStateAfter ==
    [global_state |-> global_state', pool |-> pool_account',
     user |-> user_account', pool_authority |-> pool_authority']

\* C11: in wave_stake, when a position that has accrued reward since its last
\* claim (it holds stake, and the reward computed for it now is positive)
\* commits a stake top-up or a partial unstake, a claim_rewards issued right
\* after, at the same clock time, succeeds and credits a positive reward.
C11_RewardSurvivesStakeAndUnstake ==
    [][Committed({"stake", "unstake"}) =>
        LET u == last'.user
            accrued == pending_rewards(pool_account, user_account[u], now)
        IN  (/\ user_account[u].amount > 0
             /\ user_account'[u].amount > 0
             /\ accrued.err = "Ok"
             /\ accrued.v > 0)
            => /\ claim_rewards(LockStateAfter, u, now).res = "Ok"
               /\ claim_rewards(LockStateAfter, u, now).paid > 0]_vars

\* The operations a user can issue on its position, and one of them applied
\* to the accounts S.
PositionOps ==
    {[op |-> "stake", amount |-> a] : a \in 1..MaxAmount}
    \cup {[op |-> "withdraw", amount |-> a] : a \in 1..MaxAmount}
    \cup {[op |-> "claim_reward", amount |-> 0]}

Apply(S, user, o, current_time, xfer_ok) ==
    IF o.op = "stake" THEN stake(S, user, o.amount, current_time, xfer_ok)
    ELSE IF o.op = "withdraw" THEN withdraw(S, user, o.amount, current_time, xfer_ok)
    ELSE claim_reward(S, user, current_time, xfer_ok)

\* C12: in waveswap_stake, in every reachable state and at its clock time,
\* two operations (each a stake, withdraw or claim_reward) of two different
\* users, each able to pay for its own stake, have the same outcomes and
\* leave the same global_state and the same user states whichever of the two
\* runs first.
C12_SameTimeOrderIndependent ==
    \A o1 \in PositionOps, o2 \in PositionOps :
        LET a1 == Apply(State, "alice", o1, now, TRUE)
            a2 == Apply(a1.S, "bob", o2, now, TRUE)
            b2 == Apply(State, "bob", o2, now, TRUE)
            b1 == Apply(b2.S, "alice", o1, now, TRUE)
        IN  /\ a1.res = b1.res
            /\ a2.res = b2.res
            /\ a2.S.gs = b1.S.gs
            /\ a2.S.us = b1.S.us

\* C12 witness: both users hold stake, reward is being emitted and the pool
\* was last settled before now, so whichever operation runs first settles
\* the pool for the other.
C12_Witness ==
    /\ \A u \in Users : us[u].staked_amount > 0
    /\ gs.reward_rate > 0
    /\ gs.start_time <= gs.last_update_time
    /\ gs.last_update_time < now
    /\ now <= gs.period_finish

\* C13: in both variants a claim by any user, successful or not, leaves the
\* caller's staked principal, the pool's total_staked and every other user's
\* record as they were.
C13_ClaimTouchesOnlyReward ==
    /\ program = "waveswap_stake" =>
        \A u \in Users, xfer_ok \in BOOLEAN :
            LET out == claim_reward(State, u, now, xfer_ok)
            IN  /\ out.S.us[u].staked_amount = us[u].staked_amount
                /\ out.S.gs.total_staked = gs.total_staked
                /\ \A w \in Users \ {u} : out.S.us[w] = us[w]
    /\ program = "wave_stake" =>
        \A u \in Users :
            LET out == claim_rewards(LockState, u, now)
            IN  /\ out.S.user[u].amount = user_account[u].amount
                /\ out.S.pool.total_staked = pool_account.total_staked
                /\ \A w \in Users \ {u} : out.S.user[w] = user_account[w]

\* C13 witness: a claim_rewards of wave_stake has just credited a reward to
\* one of two positions that hold stake.
C13_Witness ==
    /\ program = "wave_stake"
    /\ last.op = "claim_rewards"
    /\ last.paid > 0
    /\ \A u \in Users : user_account[u].amount > 0

\* rewards_earned of user as settled at the clock time now.
EarnedNow(u) ==
    calculate_earned(us[u].staked_amount, settle_pool(gs, now).v,
                     us[u].reward_per_token_paid, us[u].rewards_earned).v

\* C14: in waveswap_stake, a committed claim_reward moves exactly the
\* caller's rewards_earned as settled at the current time out of the reward
\* vault into the caller's token account, and leaves the caller's
\* rewards_earned at 0.
C14_ClaimPaysSettledReward ==
    [][Committed({"claim_reward"}) =>
        LET u == last'.user
        IN  /\ last'.paid = EarnedNow(u)
            /\ reward_vault' = reward_vault - EarnedNow(u)
            /\ received'[u] = received[u] + EarnedNow(u)
            /\ us'[u].rewards_earned = 0]_vars

\* C14 witness: a claim_reward has paid a position that holds stake, at a
\* time after the window started: the payment includes reward accrued since
\* the position was last settled.
C14_Witness ==
    /\ last.op = "claim_reward"
    /\ last.paid > 0
    /\ us[last.user].staked_amount > 0
    /\ us[last.user].rewards_earned = 0
    /\ now > gs.start_time
    /\ gs.last_update_time = now

\* Calls of set_rewards by the admin and by another signer, with and without
\* a zero total_reward, a zero duration and a start_time in the past.
SetRewardsCalls ==
    [signer : {Admin, "alice"}, total_reward : {0, RewardTotal},
     duration : {0, 1}, start_time : {now - 1, now}, xfer_ok : BOOLEAN]

\* The errors the checks of set_rewards name for the call c.
RejectionsOf(c) ==
    (IF c.signer # gs.admin THEN {"Unauthorized"} ELSE {})
    \cup (IF c.total_reward = 0 \/ c.duration = 0 THEN {"InvalidAmount"} ELSE {})
    \cup (IF c.start_time < now THEN {"InvalidStartTime"} ELSE {})

\* C15: in waveswap_stake, a set_rewards with total_reward = 0 or
\* duration = 0 (InvalidAmount), with start_time < now (InvalidStartTime) or
\* signed by another key than global_state.admin (Unauthorized) is rejected
\* with the error of a condition that holds, and changes no state; a
\* set_rewards that succeeds meets none of the conditions.
C15_SetRewardsRejections ==
    \A c \in SetRewardsCalls :
        LET out == set_rewards(State, c.signer, c.total_reward, c.duration,
                               c.start_time, now, c.xfer_ok)
        IN  /\ RejectionsOf(c) # {} => out.res \in RejectionsOf(c) /\ out.S = State
            /\ out.res = "Ok" => RejectionsOf(c) = {}

\* C15 witness: a set_rewards has committed and the clock has moved on, so a
\* start_time in the past exists and the pool holds a configuration that a
\* rejected call must leave alone.
C15_Witness ==
    /\ last.op = "set_rewards"
    /\ gs.reward_rate > 0
    /\ now > 0
    /\ reward_vault > 0

\* rewards_earned of user as the accounts after the step settle it, with no
\* further time passing.
EarnedAfter(u) ==
    calculate_earned(us'[u].staked_amount, gs'.reward_per_token_stored,
                     us'[u].reward_per_token_paid, us'[u].rewards_earned).v

\* C16: in waveswap_stake, a committed set_rewards at time now leaves the
\* accumulator at its value settled to now under the previous rate and
\* window, and last_update_time at now: every position's reward for the time
\* before now is what a settlement at now without the set_rewards gives.
C16_SetRewardsSettlesFirst ==
    [][Committed({"set_rewards"}) =>
        /\ gs'.reward_per_token_stored = settle_pool(gs, now).v
        /\ gs'.last_update_time = now
        /\ \A u \in Users : EarnedAfter(u) = EarnedNow(u)]_vars

\* C16 witness: a set_rewards has committed at a time after 0 on a pool that
\* holds stake and whose accumulator has grown under an earlier window.
C16_Witness ==
    /\ last.op = "set_rewards"
    /\ now > 0
    /\ gs.total_staked > 0
    /\ gs.reward_per_token_stored > 0
    /\ gs.last_update_time = now

\* set_rewards with durations of every size: 1 second, and the smallest
\* duration whose cast `duration as i64` is negative.
NextWide ==
    \/ Tick(1, MaxTime)
    \/ \E duration \in {1, I64_MAX + 1}, start_time \in {now, now + 1},
          xfer_ok \in BOOLEAN :
            SetRewards(Admin, RewardTotal, duration, start_time, xfer_ok,
                       MaxFundings * RewardTotal)
    \/ \E user \in Users, xfer_ok \in BOOLEAN :
            Stake(user, 1, xfer_ok, MaxTotalStaked)
    \/ \E user \in Users, xfer_ok \in BOOLEAN : Withdraw(user, 1, xfer_ok)
    \/ \E user \in Users, xfer_ok \in BOOLEAN : ClaimReward(user, xfer_ok)

SpecWide == InitAccumulator /\ [][NextWide]_vars

\* C17: in waveswap_stake, a committed set_rewards(total_reward, duration,
\* start_time) leaves reward_rate = floor(total_reward / duration) and
\* period_finish = start_time + duration, later than start_time, and moves
\* exactly total_reward into the reward vault.
C17_SetRewardsInstallsWindow ==
    [][Committed({"set_rewards"}) =>
        /\ gs'.reward_rate = last'.amount \div gs'.reward_duration
        /\ gs'.period_finish = gs'.start_time + gs'.reward_duration
        /\ gs'.period_finish > gs'.start_time
        /\ reward_vault' = reward_vault + last'.amount]_vars

\* C18: in wave_stake, a committed update_pool at time now leaves unchanged
\* the reward every staked position would be credited for the time between
\* its last claim and now.
C18_UpdatePoolKeepsAccruedReward ==
    [][Committed({"update_pool"}) =>
        \A u \in Users :
            (user_account[u].init /\ user_account[u].amount > 0) =>
                pending_rewards(pool_account', user_account'[u], now)
                    = pending_rewards(pool_account, user_account[u], now)]_vars

\* The update_pool and create_pool calls a signer can make.
UpdatePoolOptions == [reward_per_second : {None, Some(MaxRate)}, lock_duration : {None, Some(LockDuration + 1)}, lock_bonus_percentage : {None, Some(LockBonus + 1)}]

\* C19: in wave_stake, update_pool signed by anyone but the pool's stored
\* authority, and create_pool signed by anyone but global_state.authority,
\* is rejected and leaves the pool account as it was.
C19_OnlyConfiguratorChangesPool ==
    \A signer \in Users \cup {Admin} :
        /\ (pool_account.init /\ signer # pool_account.authority) =>
                \A o \in UpdatePoolOptions :
                    LET out == update_pool(LockState, signer, o.reward_per_second, o.lock_duration, o.lock_bonus_percentage)
                    IN  out.res # "Ok" /\ out.S.pool = pool_account
        /\ (global_state.init /\ signer # global_state.authority) =>
                LET out == create_pool(LockState, signer, MaxRate, LockDuration, LockBonus, now)
                IN  out.res # "Ok" /\ out.S.pool = pool_account

\* C20: in wave_stake, once a position has staked (it holds an amount, or it
\* carries the lock terms of a locked stake), no step changes its lock_type,
\* lock_start_timestamp, lock_end_timestamp or bonus_multiplier while the
\* account lives.
C20_LockTermsFixedByFirstStake ==
    [][\A u \in Users :
        (/\ user_account[u].init
         /\ user_account'[u].init
         /\ (user_account[u].amount > 0 \/ user_account[u].lock_type = 1))
        => /\ user_account'[u].lock_type = user_account[u].lock_type
           /\ user_account'[u].lock_start_timestamp = user_account[u].lock_start_timestamp
           /\ user_account'[u].lock_end_timestamp = user_account[u].lock_end_timestamp
           /\ user_account'[u].bonus_multiplier = user_account[u].bonus_multiplier]_vars

\* wave_stake with pool parameters of every size: lock durations up to the
\* largest i64 and the smallest u64 whose cast `as i64` is negative, and lock
\* bonuses up to the largest u16.
WideLockDurations == {LockDuration, I64_MAX + 1}
WideLockBonuses == {LockBonus, U16_MAX}
WideTime == 1

NextLockWide ==
    \/ Tick(1, WideTime)
    \/ \E lock_duration \in WideLockDurations, lock_bonus_percentage \in WideLockBonuses :
            CreatePool(Admin, 1, lock_duration, lock_bonus_percentage)
    \/ \E payer \in Users : CreateUserAccount(payer)
    \/ \E payer \in Users, lock_type \in {0, 1}, xfer_ok \in BOOLEAN, wraps \in BOOLEAN :
            StakeLock(payer, 1, lock_type, xfer_ok, wraps, MaxLockStaked)
    \/ \E authority \in Users, xfer_ok \in BOOLEAN : Unstake(authority, 1, xfer_ok)
    \/ \E authority \in Users : ClaimRewards(authority)
    \/ UpdatePool(Admin, None, Some(I64_MAX), Some(U16_MAX))
    \/ \E authority \in Users : CloseUserAccount(authority)

SpecLockWide == InitLock /\ [][NextLockWide]_vars

\* C21: in wave_stake, a committed stake by a position that holds no amount
\* (its first stake) with lock_type 0 leaves bonus_multiplier = 10000 and both
\* lock timestamps 0, and with lock_type 1 leaves bonus_multiplier = 10000 +
\* pool.lock_bonus_percentage, lock_start_timestamp = now and
\* lock_end_timestamp = now + pool.lock_duration, for the pool values of that
\* moment.
C21_FirstStakeSetsLockTerms ==
    [][Committed({"stake"}) =>
        LET u == last'.user
            user == user_account'[u]
        IN  user_account[u].amount = 0 =>
                /\ user.lock_type = 0 =>
                        /\ user.bonus_multiplier = BPS
                        /\ user.lock_start_timestamp = 0
                        /\ user.lock_end_timestamp = 0
                /\ user.lock_type = 1 =>
                        /\ user.bonus_multiplier = BPS + pool_account.lock_bonus_percentage
                        /\ user.lock_start_timestamp = now
                        /\ user.lock_end_timestamp = now + pool_account.lock_duration]_vars

\* C22: in wave_stake, close_user_account is rejected for every position that
\* still holds principal or has reward left to claim.
C22_CloseNeedsEmptyPosition ==
    \A u \in Users :
        LET user == user_account[u]
            unclaimed == pending_rewards(pool_account, user, now)
        IN  (user.init /\ (user.amount > 0 \/ unclaimed.err # "Ok" \/ unclaimed.v > 0))
                => close_user_account(LockState, u, now).res # "Ok"

\* The durations set_rewards is tried with: 1 second, the largest i64, and the
\* smallest u64 whose cast `as i64` is negative.
WideDurations == {1, I64_MAX, I64_MAX + 1}

\* C23: in waveswap_stake, wherever set_rewards, calculate_reward_per_token
\* and calculate_earned return Ok, their results are the exact floored
\* integers: period_finish = start_time + duration and reward_rate =
\* floor(total_reward / duration), the accumulator grows by floor(reward_rate
\* * elapsed * 1,000,000 / total_staked), and rewards_earned grows by
\* floor(staked_amount * (accumulator - checkpoint) / 1,000,000).
C23_ExactOrMathOverflow ==
    /\ \A duration \in WideDurations, start_time \in {now, now + 1} :
            LET out == set_rewards(State, Admin, RewardTotal, duration, start_time, now, TRUE)
            IN  out.res = "Ok" =>
                    /\ out.S.gs.period_finish = start_time + duration
                    /\ out.S.gs.reward_rate = RewardTotal \div duration
    /\ LET rpt == settle_pool(gs, now)
           from == Max(gs.last_update_time, gs.start_time)
           to == IF now < gs.period_finish THEN now ELSE gs.period_finish
           accrues == gs.total_staked > 0 /\ now >= gs.start_time /\ to > from
       IN  rpt.err = "Ok" =>
                /\ rpt.v = gs.reward_per_token_stored
                            + (IF accrues
                               THEN (gs.reward_rate * (to - from) * PRECISION) \div gs.total_staked
                               ELSE 0)
                /\ \A u \in Users :
                        LET earned == calculate_earned(us[u].staked_amount, rpt.v, us[u].reward_per_token_paid, us[u].rewards_earned)
                        IN  earned.err = "Ok" =>
                                earned.v = us[u].rewards_earned
                                    + (us[u].staked_amount * (rpt.v - us[u].reward_per_token_paid)) \div PRECISION

\* C24: in wave_stake, whatever the pool's lock_bonus_percentage and
\* lock_duration, a locked stake by a position that holds no amount, when it
\* returns Ok, stores bonus_multiplier = 10000 + lock_bonus_percentage and
\* lock_end_timestamp = now + lock_duration exactly.
C24_LockedStakeNeverWraps ==
    \A u \in Users, wraps \in BOOLEAN :
        LET out == wave_stake_stake(LockState, u, 1, 1, now, TRUE, wraps)
        IN  (user_account[u].amount = 0 /\ out.res = "Ok") =>
                /\ out.S.user[u].bonus_multiplier = BPS + pool_account.lock_bonus_percentage
                /\ out.S.user[u].lock_end_timestamp = now + pool_account.lock_duration

\* C25: for accounts that exist, stake and withdraw / unstake of amount 0 fail
\* with InvalidAmount, and withdraw / unstake of more than the caller's
\* principal fails with InsufficientFunds (waveswap_stake) or
\* InsufficientStake (wave_stake); the failed call leaves every account and
\* balance as it was.
C25_AmountChecks ==
    /\ program = "waveswap_stake" =>
          \A u \in Users, xfer_ok \in BOOLEAN :
             /\ gs.vaults_init =>
                    stake(State, u, 0, now, xfer_ok) = Outcome("InvalidAmount", State, 0)
             /\ us[u].init =>
                    /\ withdraw(State, u, 0, now, xfer_ok) = Outcome("InvalidAmount", State, 0)
                    /\ \A excess \in 1..MaxAmount :
                          withdraw(State, u, us[u].staked_amount + excess, now, xfer_ok)
                              = Outcome("InsufficientFunds", State, 0)
    /\ program = "wave_stake" =>
          \A u \in Users, xfer_ok \in BOOLEAN :
             (pool_account.init /\ user_account[u].init) =>
                /\ \A lock_type \in {0, 1}, wraps \in BOOLEAN :
                      wave_stake_stake(LockState, u, 0, lock_type, now, xfer_ok, wraps)
                          = Outcome("InvalidAmount", LockState, 0)
                /\ unstake(LockState, u, 0, now, xfer_ok) = Outcome("InvalidAmount", LockState, 0)
                /\ \A excess \in 1..MaxAmount :
                      unstake(LockState, u, user_account[u].amount + excess, now, xfer_ok)
                          = Outcome("InsufficientStake", LockState, 0)

\* C25 witness: a waveswap_stake position holds principal while rewards
\* accrue, so a rejected call has a settlement, a position and vault balances
\* to leave alone.
C25_Witness ==
    /\ program = "waveswap_stake"
    /\ \E u \in Users : us[u].init /\ us[u].staked_amount > 0
    /\ gs.reward_rate > 0
    /\ gs.start_time <= gs.last_update_time
    /\ gs.last_update_time < now
    /\ now <= gs.period_finish

\* C26: in waveswap_stake, when the token transfer of set_rewards, stake,
\* withdraw or claim_reward fails although every check of the handler
\* passes, the call fails and global_state, every user state and both vault
\* balances are as before the call, the settlement of the call included.
C26_FailedTransferRollsBack ==
    /\ \A c \in SetRewardsCalls :
          (set_rewards(State, c.signer, c.total_reward, c.duration, c.start_time, now, TRUE).res = "Ok")
              => set_rewards(State, c.signer, c.total_reward, c.duration, c.start_time, now, FALSE)
                    = Outcome("TransferFailed", State, 0)
    /\ \A u \in Users, o \in PositionOps :
          (Apply(State, u, o, now, TRUE).res = "Ok")
              => Apply(State, u, o, now, FALSE) = Outcome("TransferFailed", State, 0)

\* C26 witness: a position holds principal and reward accrued since the last
\* settlement, so the call whose transfer fails has a settlement to undo.
C26_Witness ==
    /\ \E u \in Users :
          /\ us[u].staked_amount > 0
          /\ EarnedNow(u) > us[u].rewards_earned
    /\ settle_pool(gs, now).v > gs.reward_per_token_stored
    /\ gs.last_update_time < now

\* C27: in waveswap_stake, after every step the stake vault holds exactly
\* global_state.total_staked (as it does initially, both being 0); the stake
\* vault balance decreases only in a committed withdraw, by the amount
\* withdrawn, which is at most the caller's staked_amount; the reward vault
\* balance decreases only in a committed claim_reward, by exactly the caller's
\* settled rewards_earned, which the caller's token account receives.
C27_VaultsFollowAccounting ==
    [][/\ stake_vault' = gs'.total_staked
       /\ stake_vault' < stake_vault =>
             /\ last'.op = "withdraw"
             /\ stake_vault - stake_vault' = last'.amount
             /\ last'.amount <= us[last'.user].staked_amount
             /\ us'[last'.user].staked_amount = us[last'.user].staked_amount - last'.amount
       /\ reward_vault' < reward_vault =>
             /\ last'.op = "claim_reward"
             /\ reward_vault - reward_vault' = EarnedNow(last'.user)
             /\ received'[last'.user] = received[last'.user] + EarnedNow(last'.user)]_vars

\* C27 witness: tokens have left both vaults: one user has withdrawn its
\* whole principal, and a claim_reward has just been paid while the other
\* user's principal is still in the stake vault.
C27_Witness ==
    /\ last.op = "claim_reward"
    /\ last.paid > 0
    /\ stake_vault > 0
    /\ \E u \in Users : us[u].init /\ us[u].staked_amount = 0 /\ u # last.user
    /\ \E u \in Users : received[u] > 0

\* C28: in waveswap_stake, a committed stake, withdraw or claim_reward at time
\* now leaves the caller's reward_per_token_paid equal to
\* global_state.reward_per_token_stored and global_state.last_update_time
\* equal to now; and after every step every user's reward_per_token_paid is
\* at most reward_per_token_stored.
C28_CheckpointFollowsAccumulator ==
    [][/\ Committed({"stake", "withdraw", "claim_reward"}) =>
             /\ us'[last'.user].reward_per_token_paid = gs'.reward_per_token_stored
             /\ gs'.last_update_time = now
       /\ \A u \in Users : us'[u].reward_per_token_paid <= gs'.reward_per_token_stored]_vars

\* C28 witness: the caller of the last operation is at the accumulator, which
\* has grown, while another staker's checkpoint is behind it.
C28_Witness ==
    /\ last.op \in {"stake", "withdraw", "claim_reward"}
    /\ gs.reward_per_token_stored > 0
    /\ us[last.user].reward_per_token_paid = gs.reward_per_token_stored
    /\ \E u \in Users :
          /\ us[u].staked_amount > 0
          /\ us[u].reward_per_token_paid < gs.reward_per_token_stored

\* C29: in waveswap_stake, an operation committed while total_staked = 0 or
\* now < start_time leaves reward_per_token_stored unchanged, adds nothing to
\* what any position has earned (rewards_earned as settled, plus the reward
\* already paid out) and sets last_update_time = now; from then on the
\* accumulator settled at any later time t grows by no more than the emission
\* of the seconds after now (and after start_time), so the time before now is
\* never paid for.
C29_EmptyIntervalForfeited ==
    [][(/\ Committed({"set_rewards", "stake", "withdraw", "claim_reward"})
        /\ (gs.total_staked = 0 \/ now < gs.start_time))
       => /\ gs'.reward_per_token_stored = gs.reward_per_token_stored
          /\ gs'.last_update_time = now
          /\ \A u \in Users : EarnedAfter(u) + received'[u] = EarnedNow(u) + received[u]
          /\ \A t \in now..(MaxTime + 1) :
                LET later == settle_pool(gs', t)
                    seconds == Max(0, t - Max(now, gs'.start_time))
                IN  /\ later.err = "Ok"
                    /\ later.v - gs'.reward_per_token_stored
                          <= (IF gs'.total_staked = 0 THEN 0
                              ELSE (gs'.reward_rate * seconds * PRECISION) \div gs'.total_staked)]_vars

\* C29 witness: a stake has entered a pool that stood without stake for a
\* second of its reward window: the window began before now, and the
\* accumulator has not moved.
C29_Witness ==
    /\ last.op = "stake"
    /\ gs.total_staked = last.amount
    /\ gs.reward_rate > 0
    /\ gs.start_time < now
    /\ now <= gs.period_finish
    /\ gs.last_update_time = now
    /\ gs.reward_per_token_stored = 0

\* C30: in waveswap_stake, every committed operation at time now adds to
\* reward_per_token_stored exactly floor(reward_rate * (min(now,
\* period_finish) - max(last_update_time, start_time)) * 1,000,000 /
\* total_staked) when the pool holds stake and that interval is positive, and
\* nothing otherwise; it adds nothing once last_update_time >= period_finish;
\* and it sets last_update_time = now, so the next interval begins where this
\* one ended or later.
C30_AccrualInsideWindow ==
    [][Committed({"set_rewards", "stake", "withdraw", "claim_reward"}) =>
        LET from == Max(gs.last_update_time, gs.start_time)
            to == IF now < gs.period_finish THEN now ELSE gs.period_finish
            increment == IF gs.total_staked > 0 /\ to - from > 0
                         THEN (gs.reward_rate * (to - from) * PRECISION) \div gs.total_staked
                         ELSE 0
        IN  /\ gs'.reward_per_token_stored = gs.reward_per_token_stored + increment
            /\ gs.last_update_time >= gs.period_finish =>
                    gs'.reward_per_token_stored = gs.reward_per_token_stored
            /\ gs'.last_update_time = now
            /\ gs'.last_update_time >= to]_vars

\* C30 witness: a position has been settled after the window closed, having
\* last been settled inside it: the interval was cut off at period_finish.
C30_Witness ==
    /\ last.op \in {"stake", "withdraw", "claim_reward"}
    /\ gs.start_time < gs.period_finish
    /\ gs.period_finish < now
    /\ gs.last_update_time = now
    /\ gs.total_staked > 0
    /\ gs.reward_per_token_stored
          = (gs.reward_rate * (gs.period_finish - gs.start_time) * PRECISION) \div gs.total_staked
    /\ gs.reward_per_token_stored > 0

\* global_state after a settlement of the pool at time t and nothing else.
SettledAt(g, t) == [g EXCEPT !.reward_per_token_stored = settle_pool(g, t).v, !.last_update_time = t]

\* Pairs of times t1 <= t2 from now on at which a pool that holds stake
\* inside its window, total_staked unchanged, can be settled.
SettlementTimes ==
    {tt \in (now..LongTime) \X (now..LongTime) :
        /\ tt[1] <= tt[2]
        /\ gs.total_staked > 0
        /\ gs.reward_rate > 0
        /\ gs.start_time <= gs.last_update_time
        /\ tt[2] <= gs.period_finish}

\* C31 as stated: in waveswap_stake, with total_staked constant and positive
\* inside the window, settling the pool at t1 and then at t2 leaves the same
\* reward_per_token_stored as settling it only at t2.
C31_SettlementFrequencyIrrelevant ==
    \A tt \in SettlementTimes :
        settle_pool(SettledAt(gs, tt[1]), tt[2]).v = settle_pool(gs, tt[2]).v

\* C31: in waveswap_stake, with total_staked constant and positive inside the
\* window, settling the pool at t1 and then at t2 leaves a
\* reward_per_token_stored that is never more, and at most 1 less, than
\* settling it only at t2 (each settlement floors its own increment), and a
\* position settled against it earns at most floor(staked_amount /
\* 1,000,000) + 1 less.
C31_ExtraSettlementCostsAtMostOne ==
    \A tt \in SettlementTimes :
        LET once == settle_pool(gs, tt[2]).v
            twice == settle_pool(SettledAt(gs, tt[1]), tt[2]).v
        IN  /\ twice <= once
            /\ once - twice <= 1
            /\ \A u \in Users :
                  LET earned(rpt) == calculate_earned(us[u].staked_amount, rpt, us[u].reward_per_token_paid, us[u].rewards_earned).v
                  IN  /\ earned(twice) <= earned(once)
                      /\ earned(once) - earned(twice) <= us[u].staked_amount \div PRECISION + 1

\* C31 witness: a pool of 3 staked units at rate 1 whose settlement after one
\* second and again after three gives an accumulator one below that of the
\* single settlement, and the staker one reward unit less.
C31_Witness ==
    /\ gs.total_staked = 3
    /\ \E tt \in SettlementTimes, u \in Users :
          /\ tt[1] > now
          /\ settle_pool(SettledAt(gs, tt[1]), tt[2]).v = settle_pool(gs, tt[2]).v - 1
          /\ us[u].staked_amount = 3
          /\ calculate_earned(3, settle_pool(SettledAt(gs, tt[1]), tt[2]).v, us[u].reward_per_token_paid, us[u].rewards_earned).v
                = calculate_earned(3, settle_pool(gs, tt[2]).v, us[u].reward_per_token_paid, us[u].rewards_earned).v - 1

\* The reward tokens the program has received and not lost sight of: those in
\* the reward vault and those paid out to the users' token accounts.
Funded == reward_vault + SumOver(received, Users)

\* The reward owed to all users: rewards_earned of every user as settled at
\* the clock time now.
Owed == SumOver([u \in Users |-> EarnedNow(u)], Users)

\* The sum Funded is the sum of total_reward over the committed set_rewards:
\* it grows by the total_reward of a committed set_rewards and is changed by
\* no other step.
FundedIsSumOfSetRewards ==
    [][Funded' = Funded + (IF Committed({"set_rewards"}) THEN last'.amount ELSE 0)]_vars

\* C32: in waveswap_stake, in every reachable state the reward owed to all
\* users plus the reward already paid out is at most the reward funded by
\* the committed set_rewards, so the vault holds what is owed, and the
\* claim_reward of every user who is owed a reward succeeds and pays it when
\* the token program performs the transfer.
C32_RewardVaultSolvent ==
    /\ Owed + SumOver(received, Users) <= Funded
    /\ \A u \in Users :
          (us[u].init /\ EarnedNow(u) > 0) =>
              claim_reward(State, u, now, TRUE).res = "Ok"

\* C32 witness: everything that was funded has been emitted: part of it has
\* been paid out, and the rest, the whole balance of the vault, is owed.
C32_Witness ==
    /\ SumOver(received, Users) > 0
    /\ Owed > 0
    /\ Owed = reward_vault

\* The clock times a later withdraw is tried at: now, the next second, and
\* the largest clock value there is.
LaterTimes == {now, now + 1, I64_MAX}

\* The largest total_reward the accumulator of this model has room for on top
\* of the fundings of NextWide.  (In the program a u64 total_reward times
\* 1,000,000 is below 2^84 and always fits the u128 accumulator; the model's
\* accumulator is only one bit wider than its u64.)
BigReward == U128_MAX \div PRECISION - 2 * MaxFundings * RewardTotal

\* The reward configurations the admin may install now.
RewardConfigurations ==
    [total_reward : {RewardTotal, BigReward}, duration : WideDurations, start_time : {now, now + 1}]

\* C33: in waveswap_stake, in every reachable state, and also after any
\* reward configuration that set_rewards accepts now, a withdraw of any
\* amount between 1 and the caller's staked_amount succeeds at every later
\* clock time, when the token program performs the transfer.
C33_PrincipalRecoverable ==
    \A u \in Users, t \in LaterTimes :
        \A amount \in 1..us[u].staked_amount :
            /\ withdraw(State, u, amount, t, TRUE).res = "Ok"
            /\ \A c \in RewardConfigurations :
                  LET configured == set_rewards(State, Admin, c.total_reward, c.duration, c.start_time, now, TRUE)
                  IN  configured.res = "Ok" =>
                          withdraw(configured.S, u, amount, t, TRUE).res = "Ok"

\* C33 witness: a withdraw has committed after the reward window closed, on a
\* pool whose accumulator had grown and which then stood unsettled.
C33_Witness ==
    /\ last.op = "withdraw"
    /\ last.amount > 0
    /\ gs.reward_per_token_stored > 0
    /\ gs.start_time < gs.period_finish
    /\ gs.period_finish < now
    /\ \E u \in Users : us[u].staked_amount > 0

\* C34: in wave_stake, while every position is flexible (bonus_multiplier
\* 10000), a committed claim_rewards credits the caller, for the time since
\* its last claim, no more than pool.reward_per_second times the length of
\* that time (what the pool emits for all positions together).
C34_ClaimWithinEmission ==
    [][Committed({"claim_rewards"}) =>
        LET u == last'.user
        IN  (\A v \in Users : user_account[v].init =>
                  user_account[v].lock_type = 0 /\ user_account[v].bonus_multiplier = BPS)
            => last'.paid <= pool_account.reward_per_second
                                * (now - user_account[u].last_reward_claim_timestamp)]_vars

====
